---- MODULE Spec2Model ----
(***************************************************************************)
(* A model of git-sim (egekaya1/GitSimulator): the read-only repository    *)
(* facade, the heuristic conflict detector, the operation simulators and   *)
(* the conversion of their records to the uniform SimulationResult.        *)
(*                                                                         *)
(* Conventions.  A commit hash is the index of the commit in the object    *)
(* store (commit i is created after commit j < i, so its parents have      *)
(* smaller indices and its commit time is larger).  A path is a small      *)
(* natural number.  A blob hash is a natural number, 0 standing for "no    *)
(* such file" in a tree and for None in a FileChange.  Python's None for   *)
(* old_path is 0 as well.  The hashes the simulators make up for commits   *)
(* that do not exist yet are numbers above every hash of the object store. *)
(***************************************************************************)
EXTENDS Integers, Sequences, FiniteSets, TLC

VARIABLES
    commits,        \* object store: commits[i] = [parents, tree] of commit i
    refs,           \* refs/heads: branch name -> commit
    HEAD,           \* [branch |-> name or "", sha |-> commit]: symbolic or detached
    our_changes,    \* detector harness: the 'ours' list handed to detect_conflicts
    their_changes,  \* detector harness: the 'theirs' list
    hash_seed,      \* the string hash seed the interpreter process drew at start
    snapshots,      \* snapshots.json: the list of stored snapshot records
    plugins,        \* the global PluginManager: _plugins and its registry
    out             \* what the last call returned (or raised)

vars == <<commits, refs, HEAD, our_changes, their_changes, hash_seed, snapshots, plugins, out>>

repoVars == <<commits, refs, HEAD>>

NoOut == [op |-> "none"]

\* PluginManager.__init__: no plugin, an empty registry
NoPlugins == [_plugins |-> <<>>, simulators |-> <<>>, formatters |-> <<>>, hooks |-> <<>>]

\* the string hash seeds a process may draw (PYTHONHASHSEED is random by
\* default); two of them are told apart
HashSeeds == {0, 1}

(***************************************************************************)
(* Generic helpers over sequences and sets.                                *)
(***************************************************************************)
Max(S) == CHOOSE x \in S : \A y \in S : y <= x

Min(S) == CHOOSE x \in S : \A y \in S : x <= y

Range(s) == {s[i] : i \in DOMAIN s}

RECURSIVE SortedSeq(_)
\* the elements of a finite set of numbers, ascending
SortedSeq(S) == IF S = {} THEN <<>> ELSE <<Min(S)>> \o SortedSeq(S \ {Min(S)})

RECURSIVE Flatten(_)
\* concatenation of a sequence of sequences
Flatten(ss) == IF ss = <<>> THEN <<>> ELSE Head(ss) \o Flatten(Tail(ss))

Reverse(seq) == [i \in DOMAIN seq |-> seq[Len(seq) + 1 - i]]

SeqsUpTo(S, n) == UNION {[1..k -> S] : k \in 0..n}

\* Python dict built by {x.k: x for x in seq if ...}: I is the set of indices
\* the comprehension keeps, k the field used as key.  The keys, and for a key
\* the LAST kept element of seq that carries it.
DictKeys(seq, I, k) == {seq[i][k] : i \in I}

DictGet(seq, I, k, v) == seq[Max({i \in I : seq[i][k] = v})]

\* keys of such a dict in insertion order (the order of first occurrence)
DictKeyOrder(seq, I, k) ==
    LET firsts == {i \in I : \A j \in I : seq[j][k] = seq[i][k] => i <= j}
        idx == SortedSeq(firsts)
    IN [n \in DOMAIN idx |-> seq[idx[n]][k]]

\* Iteration order of a Python set of paths: the order follows the hashes of
\* the strings, which change with the hash seed of the process.  One seed
\* gives ascending order, the other descending order.
SetOrder(S) == IF hash_seed = 0 THEN SortedSeq(S) ELSE Reverse(SortedSeq(S))

(***************************************************************************)
(* core/models.py: hunks, file changes, potential conflicts.               *)
(***************************************************************************)
DiffHunk(start, count, lines) == [old_start |-> start, old_count |-> count, lines |-> lines]

old_range(h) == <<h.old_start, h.old_start + h.old_count>>

FileChange(path, change_type, old_path, new_sha, hunks) ==
    [path |-> path, change_type |-> change_type, old_path |-> old_path,
     new_sha |-> new_sha, hunks |-> hunks]

PotentialConflict(path, severity, description, our_fc, their_fc, ranges) ==
    [path |-> path, severity |-> severity, description |-> description,
     our_change |-> our_fc, their_change |-> their_fc, overlapping_ranges |-> ranges]

is_certain(c) == c.severity = "CERTAIN"

(***************************************************************************)
(* simulation/conflict_detector.py                                         *)
(***************************************************************************)
ADJACENCY_THRESHOLD == 3

\* the overlap test with strict comparisons, which drops a gap of exactly
\* ADJACENCY_THRESHOLD
HunksOverlap_Strict(our_hunk, their_hunk) ==
    /\ old_range(our_hunk)[1] < old_range(their_hunk)[2] + ADJACENCY_THRESHOLD
    /\ old_range(their_hunk)[1] < old_range(our_hunk)[2] + ADJACENCY_THRESHOLD

HunksOverlap(our_hunk, their_hunk) ==
    /\ old_range(our_hunk)[1] <= old_range(their_hunk)[2] + ADJACENCY_THRESHOLD
    /\ old_range(their_hunk)[1] <= old_range(our_hunk)[2] + ADJACENCY_THRESHOLD

\* nested loop: our hunks outside, their hunks inside, one tuple per pair
_find_overlapping_hunks(our_hunks, their_hunks) ==
    Flatten([i \in DOMAIN our_hunks |->
        LET hit == SelectSeq([j \in DOMAIN their_hunks |-> j],
                             LAMBDA j : HunksOverlap(our_hunks[i], their_hunks[j]))
        IN [n \in DOMAIN hit |-> <<old_range(our_hunks[i]), old_range(their_hunks[hit[n]])>>]])

\* the '+'/'-' lines of a hunk; a line is <<prefix, text>>
ChangedLines(h) == SelectSeq(h.lines, LAMBDA l : l[1] \in {"+", "-"})

\* changes_by_range.get(range, []): last hunk with that old range wins
ChangesByRange(hunks, rng) ==
    IF \E i \in DOMAIN hunks : old_range(hunks[i]) = rng
    THEN ChangedLines(hunks[Max({i \in DOMAIN hunks : old_range(hunks[i]) = rng})])
    ELSE <<>>

_classify_overlap_severity(our_hunks, their_hunks, overlaps) ==
    IF \E n \in DOMAIN overlaps :
          ChangesByRange(our_hunks, overlaps[n][1]) # ChangesByRange(their_hunks, overlaps[n][2])
    THEN "CERTAIN"
    ELSE "LIKELY"

None == [none |-> TRUE]

\* _analyze_file_conflict without the early return that leaves delete versus
\* modify/add to the specialised pass.
_analyze_file_conflict_NoDeleteSkip(path, our_fc, their_fc) ==
    IF our_fc.change_type = "DELETE" /\ their_fc.change_type = "DELETE" THEN None
    ELSE IF our_fc.change_type = "ADD" /\ their_fc.change_type = "ADD"
            /\ our_fc.new_sha = their_fc.new_sha THEN None
    ELSE IF our_fc.change_type = "ADD" /\ their_fc.change_type = "ADD" THEN
        PotentialConflict(path, "CERTAIN", "both add", our_fc, their_fc, <<>>)
    ELSE IF our_fc.change_type = "ADD" \/ their_fc.change_type = "ADD" THEN
        PotentialConflict(path, "CERTAIN", "added on one side, modified on other",
                          our_fc, their_fc, <<>>)
    ELSE IF our_fc.hunks = <<>> \/ their_fc.hunks = <<>> THEN
        PotentialConflict(path, "LIKELY", "could not analyze hunks", our_fc, their_fc, <<>>)
    ELSE LET overlaps == _find_overlapping_hunks(our_fc.hunks, their_fc.hunks)
         IN IF overlaps = <<>> THEN None
            ELSE PotentialConflict(path,
                     _classify_overlap_severity(our_fc.hunks, their_fc.hunks, overlaps),
                     "overlap", our_fc, their_fc, overlaps)

_analyze_file_conflict(path, our_fc, their_fc) ==
    IF our_fc.change_type = "DELETE" /\ their_fc.change_type = "DELETE" THEN None
    ELSE IF our_fc.change_type = "ADD" /\ their_fc.change_type = "ADD"
            /\ our_fc.new_sha = their_fc.new_sha THEN None
    ELSE IF our_fc.change_type = "ADD" /\ their_fc.change_type = "ADD" THEN
        PotentialConflict(path, "CERTAIN", "both add", our_fc, their_fc, <<>>)
    ELSE IF \/ (our_fc.change_type = "DELETE" /\ their_fc.change_type \in {"MODIFY", "ADD"})
            \/ (their_fc.change_type = "DELETE" /\ our_fc.change_type \in {"MODIFY", "ADD"})
         THEN None
    ELSE IF our_fc.change_type = "ADD" \/ their_fc.change_type = "ADD" THEN
        PotentialConflict(path, "CERTAIN", "added on one side, modified on other",
                          our_fc, their_fc, <<>>)
    ELSE IF our_fc.hunks = <<>> \/ their_fc.hunks = <<>> THEN
        PotentialConflict(path, "LIKELY", "could not analyze hunks", our_fc, their_fc, <<>>)
    ELSE LET overlaps == _find_overlapping_hunks(our_fc.hunks, their_fc.hunks)
         IN IF overlaps = <<>> THEN None
            ELSE PotentialConflict(path,
                     _classify_overlap_severity(our_fc.hunks, their_fc.hunks, overlaps),
                     "overlap", our_fc, their_fc, overlaps)

\* index sets kept by the comprehensions of the detector
AllOf(changes) == DOMAIN changes

Deleted(changes) == {i \in DOMAIN changes : changes[i].change_type = "DELETE"}

ModifiedOrAdded(changes) ==
    {i \in DOMAIN changes : changes[i].change_type \in {"MODIFY", "ADD"}}

WithOldPath(changes) == {i \in DOMAIN changes : changes[i].old_path # 0}

Renames(changes) ==
    {i \in DOMAIN changes : changes[i].change_type = "RENAME" /\ changes[i].old_path # 0}

\* _detect_delete_modify_conflicts with the second pass (their deletes
\* against our modifies) left out.
_detect_delete_modify_conflicts_OneWay(ours, theirs) ==
    LET ourDel == SetOrder(DictKeys(ours, Deleted(ours), "path")
                             \cap DictKeys(theirs, ModifiedOrAdded(theirs), "path"))
    IN [n \in DOMAIN ourDel |->
            PotentialConflict(ourDel[n], "CERTAIN", "deleted on target but modified in commit",
                              DictGet(ours, Deleted(ours), "path", ourDel[n]),
                              DictGet(theirs, ModifiedOrAdded(theirs), "path", ourDel[n]), <<>>)]

_detect_delete_modify_conflicts(ours, theirs) ==
    LET ourDel  == SetOrder(DictKeys(ours, Deleted(ours), "path")
                              \cap DictKeys(theirs, ModifiedOrAdded(theirs), "path"))
        theirDel == SetOrder(DictKeys(theirs, Deleted(theirs), "path")
                              \cap DictKeys(ours, ModifiedOrAdded(ours), "path"))
    IN [n \in DOMAIN ourDel |->
            PotentialConflict(ourDel[n], "CERTAIN", "deleted on target but modified in commit",
                              DictGet(ours, Deleted(ours), "path", ourDel[n]),
                              DictGet(theirs, ModifiedOrAdded(theirs), "path", ourDel[n]), <<>>)]
       \o
       [n \in DOMAIN theirDel |->
            PotentialConflict(theirDel[n], "CERTAIN", "modified on target but deleted in commit",
                              DictGet(ours, ModifiedOrAdded(ours), "path", theirDel[n]),
                              DictGet(theirs, Deleted(theirs), "path", theirDel[n]), <<>>)]

\* next(fc for fc in changes if fc.path == p)
FirstWithPath(changes, p) == changes[Min({i \in DOMAIN changes : changes[i].path = p})]

ModifiedPaths(changes) ==
    {changes[i].path : i \in {j \in DOMAIN changes : changes[j].change_type = "MODIFY"}}

\* _detect_rename_conflicts with the reverse case (their renames against our
\* modifies) left out.
_detect_rename_conflicts_NoReverse(ours, theirs) ==
    LET both == SetOrder(DictKeys(ours, WithOldPath(ours), "old_path")
                           \cap DictKeys(theirs, WithOldPath(theirs), "old_path"))
        case1 == SelectSeq(
                   [n \in DOMAIN both |->
                      PotentialConflict(both[n], "CERTAIN", "rename/rename",
                                        DictGet(ours, WithOldPath(ours), "old_path", both[n]),
                                        DictGet(theirs, WithOldPath(theirs), "old_path", both[n]), <<>>)],
                   LAMBDA c : c.our_change.path # c.their_change.path)
        ourRen == SelectSeq(DictKeyOrder(ours, Renames(ours), "old_path"),
                            LAMBDA p : p \in ModifiedPaths(theirs))
    IN case1
       \o
       [n \in DOMAIN ourRen |->
            PotentialConflict(ourRen[n], "LIKELY", "renamed on target but modified in commit",
                              DictGet(ours, Renames(ours), "old_path", ourRen[n]),
                              FirstWithPath(theirs, ourRen[n]), <<>>)]

_detect_rename_conflicts(ours, theirs) ==
    LET both == SetOrder(DictKeys(ours, WithOldPath(ours), "old_path")
                           \cap DictKeys(theirs, WithOldPath(theirs), "old_path"))
        case1 == SelectSeq(
                   [n \in DOMAIN both |->
                      PotentialConflict(both[n], "CERTAIN", "rename/rename",
                                        DictGet(ours, WithOldPath(ours), "old_path", both[n]),
                                        DictGet(theirs, WithOldPath(theirs), "old_path", both[n]), <<>>)],
                   LAMBDA c : c.our_change.path # c.their_change.path)
        ourRen == SelectSeq(DictKeyOrder(ours, Renames(ours), "old_path"),
                            LAMBDA p : p \in ModifiedPaths(theirs))
        theirRen == SelectSeq(DictKeyOrder(theirs, Renames(theirs), "old_path"),
                              LAMBDA p : p \in ModifiedPaths(ours))
    IN case1
       \o
       [n \in DOMAIN ourRen |->
            PotentialConflict(ourRen[n], "LIKELY", "renamed on target but modified in commit",
                              DictGet(ours, Renames(ours), "old_path", ourRen[n]),
                              FirstWithPath(theirs, ourRen[n]), <<>>)]
       \o
       [n \in DOMAIN theirRen |->
            PotentialConflict(theirRen[n], "LIKELY", "modified on target but renamed in commit",
                              FirstWithPath(ours, theirRen[n]),
                              DictGet(theirs, Renames(theirs), "old_path", theirRen[n]), <<>>)]

detect_conflicts(ours, theirs) ==
    LET common == SetOrder(DictKeys(ours, AllOf(ours), "path") \cap DictKeys(theirs, AllOf(theirs), "path"))
        perPath == [n \in DOMAIN common |->
                      _analyze_file_conflict(common[n],
                                             DictGet(ours, AllOf(ours), "path", common[n]),
                                             DictGet(theirs, AllOf(theirs), "path", common[n]))]
    IN SelectSeq(perPath, LAMBDA c : c # None)
       \o _detect_delete_modify_conflicts(ours, theirs)
       \o _detect_rename_conflicts(ours, theirs)

(***************************************************************************)
(* Detector harness: detect_conflicts applied to bounded lists of changes. *)
(***************************************************************************)
NumPaths == 2

NumShas == 2

MaxChanges == 2

DetPaths == 1..NumPaths

HunkOurs == DiffHunk(10, 5, << <<"-", "old">>, <<"+", "ours">> >>)

HunkTheirs == DiffHunk(12, 3, << <<"-", "old">>, <<"+", "theirs">> >>)

HunkFar == DiffHunk(30, 2, << <<" ", "ctx">>, <<"+", "ours">> >>)

DetChanges ==
    {FileChange(p, "ADD", 0, s, <<>>) : p \in DetPaths, s \in 1..NumShas}
    \cup {FileChange(p, "DELETE", 0, 0, h) : p \in DetPaths, h \in {<<>>, <<HunkOurs>>}}
    \cup {FileChange(p, "MODIFY", 0, 0, h) :
             p \in DetPaths, h \in {<<>>, <<HunkOurs>>, <<HunkTheirs>>, <<HunkFar>>}}
    \cup {FileChange(pq[1], "RENAME", pq[2], 0, h) :
             pq \in {x \in DetPaths \X DetPaths : x[1] # x[2]}, h \in {<<>>, <<HunkOurs>>}}

InitDetect ==
    /\ commits = <<>>
    /\ refs = <<>>
    /\ HEAD = [branch |-> "", sha |-> 0]
    /\ our_changes \in SeqsUpTo(DetChanges, MaxChanges)
    /\ their_changes \in SeqsUpTo(DetChanges, MaxChanges)
    /\ hash_seed \in HashSeeds
    /\ snapshots = <<>>
    /\ plugins = NoPlugins
    /\ out = NoOut

Detect ==
    /\ out.op = "none"
    /\ out' = [op |-> "detect", conflicts |-> detect_conflicts(our_changes, their_changes)]
    /\ UNCHANGED <<commits, refs, HEAD, our_changes, their_changes, hash_seed, snapshots, plugins>>

NextDetect == Detect

SpecDetect == InitDetect /\ [][NextDetect]_vars

(***************************************************************************)
(* Claims about detect_conflicts, checked under SpecDetect.                *)
(***************************************************************************)
Severities == {"LIKELY", "CERTAIN"}

RecordsFor(conflicts, p) == {i \in DOMAIN conflicts : conflicts[i].path = p}

SevCount(conflicts, p, s) ==
    Cardinality({i \in RecordsFor(conflicts, p) : conflicts[i].severity = s})

\* the changes of a list that touch path p, as path or as old path
Touching(changes, p) ==
    {i \in DOMAIN changes : changes[i].path = p \/ changes[i].old_path = p}

\* C8: detect_conflicts(A, B) and detect_conflicts(B, A) report the same
\* paths and, per path, the same multiset of severities.
C8_Symmetric ==
    out.op = "detect" =>
        \A p \in DetPaths : \A s \in Severities :
            SevCount(out.conflicts, p, s)
              = SevCount(detect_conflicts(their_changes, our_changes), p, s)

C8_Witness ==
    /\ out.op = "detect"
    /\ Len(our_changes) = 2 /\ Len(their_changes) = 2
    /\ our_changes # their_changes
    /\ \E i, j \in DOMAIN out.conflicts :
          /\ out.conflicts[i].severity = "CERTAIN"
          /\ out.conflicts[j].severity = "LIKELY"
          /\ out.conflicts[i].description = "deleted on target but modified in commit"

\* C9: detect_conflicts returns at most one record for any given path.
\* (Stated for the case the claim singles out: 'theirs' is one commit's diff,
\* plain changes with one change per path, 'ours' is any list.)
PlainDiff(changes) ==
    /\ \A i \in DOMAIN changes : changes[i].change_type \in {"ADD", "DELETE", "MODIFY"}
    /\ \A i, j \in DOMAIN changes : changes[i].path = changes[j].path => i = j

C9_OneRecordPerPath ==
    (out.op = "detect" /\ PlainDiff(their_changes)) =>
        \A p \in DetPaths : Cardinality(RecordsFor(out.conflicts, p)) <= 1

\* the one change of a list that touches p
TheChange(changes, p) == changes[CHOOSE i \in Touching(changes, p) : TRUE]

SingleChangeEachSide(p) ==
    /\ Cardinality(Touching(our_changes, p)) = 1
    /\ Cardinality(Touching(their_changes, p)) = 1

\* what the table of the per-path classification promises for (ours, theirs)
ExpectedRecords(o, t) ==
    IF o.change_type = "DELETE" /\ t.change_type = "DELETE" THEN <<0, "NONE">>
    ELSE IF o.change_type = "ADD" /\ t.change_type = "ADD" THEN
        IF o.new_sha = t.new_sha THEN <<0, "NONE">> ELSE <<1, "CERTAIN">>
    ELSE IF {o.change_type, t.change_type} = {"ADD", "MODIFY"} THEN <<1, "CERTAIN">>
    ELSE IF {o.change_type, t.change_type} \in {{"DELETE", "MODIFY"}, {"DELETE", "ADD"}}
         THEN <<1, "CERTAIN">>
    ELSE IF o.change_type = "MODIFY" /\ t.change_type = "MODIFY"
            /\ (o.hunks = <<>> \/ t.hunks = <<>>) THEN <<1, "LIKELY">>
    ELSE <<2, "UNSTATED">>

\* C10: with exactly one change touching P on each side, DELETE/DELETE and
\* ADD/ADD with equal hashes give no record for P; ADD/ADD with different
\* hashes, ADD/MODIFY and DELETE/(MODIFY or ADD) in either direction give
\* exactly one CERTAIN record; MODIFY/MODIFY with a side without hunks gives
\* exactly one LIKELY record.
C10_SingleChangeTable ==
    out.op = "detect" =>
        \A p \in DetPaths :
            SingleChangeEachSide(p) =>
                LET e == ExpectedRecords(TheChange(our_changes, p), TheChange(their_changes, p))
                IN e[2] # "UNSTATED" =>
                      /\ Cardinality(RecordsFor(out.conflicts, p)) = e[1]
                      /\ \A i \in RecordsFor(out.conflicts, p) : out.conflicts[i].severity = e[2]

C10_Witness ==
    /\ out.op = "detect"
    /\ Len(our_changes) = 2 /\ Len(their_changes) = 2
    /\ \E p \in DetPaths :
          /\ SingleChangeEachSide(p)
          /\ TheChange(our_changes, p).change_type = "MODIFY"
          /\ TheChange(our_changes, p).hunks # <<>>
          /\ TheChange(their_changes, p).change_type = "MODIFY"
          /\ TheChange(their_changes, p).hunks = <<>>
          /\ Cardinality(RecordsFor(out.conflicts, p)) = 1
    /\ \E q \in DetPaths :
          /\ SingleChangeEachSide(q)
          /\ TheChange(our_changes, q).change_type = "ADD"
          /\ TheChange(their_changes, q).change_type = "DELETE"
          /\ Cardinality(RecordsFor(out.conflicts, q)) = 1

(***************************************************************************)
(* Rename harness: detect_conflicts applied to lists of changes over three *)
(* paths, so that one old path can be renamed to two different new paths.  *)
(***************************************************************************)
RenPaths == 3

MaxRenChanges == 2

RenChanges ==
    {FileChange(p, "ADD", 0, 1, <<>>) : p \in 1..RenPaths}
    \cup {FileChange(p, "DELETE", 0, 0, <<>>) : p \in 1..RenPaths}
    \cup {FileChange(p, "MODIFY", 0, 0, h) : p \in 1..RenPaths, h \in {<<>>, <<HunkOurs>>}}
    \cup {FileChange(pq[1], "RENAME", pq[2], 0, <<>>) :
             pq \in {x \in (1..RenPaths) \X (1..RenPaths) : x[1] # x[2]}}

InitDetectRename ==
    /\ commits = <<>>
    /\ refs = <<>>
    /\ HEAD = [branch |-> "", sha |-> 0]
    /\ our_changes \in SeqsUpTo(RenChanges, MaxRenChanges)
    /\ their_changes \in SeqsUpTo(RenChanges, MaxRenChanges)
    /\ hash_seed \in HashSeeds
    /\ snapshots = <<>>
    /\ plugins = NoPlugins
    /\ out = NoOut

SpecDetectRename == InitDetectRename /\ [][NextDetect]_vars

IsRenameOf(fc, p) == fc.change_type = "RENAME" /\ fc.old_path = p

IsModifyOf(fc, p) == fc.change_type = "MODIFY" /\ fc.path = p

\* exactly one record keyed by p, of severity s; the only record at all when
\* each list holds a single change
OneRecord(p, s) ==
    /\ Cardinality(RecordsFor(out.conflicts, p)) = 1
    /\ SevCount(out.conflicts, p, s) = 1
    /\ (Len(our_changes) = 1 /\ Len(their_changes) = 1) => Len(out.conflicts) = 1

\* C11: when the one change of each side that touches P renames P, to
\* different new paths, detect_conflicts returns exactly one record keyed by
\* P, CERTAIN; when one side's renames P and the other's modifies P (either
\* direction), exactly one record keyed by P, LIKELY.
C11_RenameRecords ==
    out.op = "detect" =>
        \A p \in 1..RenPaths :
            SingleChangeEachSide(p) =>
                LET o == TheChange(our_changes, p)
                    t == TheChange(their_changes, p)
                IN /\ (IsRenameOf(o, p) /\ IsRenameOf(t, p) /\ o.path # t.path)
                          => OneRecord(p, "CERTAIN")
                   /\ (IsRenameOf(o, p) /\ IsModifyOf(t, p)) => OneRecord(p, "LIKELY")
                   /\ (IsModifyOf(o, p) /\ IsRenameOf(t, p)) => OneRecord(p, "LIKELY")

C11_Witness ==
    /\ out.op = "detect"
    /\ our_changes = <<FileChange(2, "MODIFY", 0, 0, <<HunkOurs>>),
                       FileChange(3, "RENAME", 1, 0, <<>>)>>
    /\ their_changes = <<FileChange(2, "RENAME", 1, 0, <<>>),
                         FileChange(3, "MODIFY", 0, 0, <<>>)>>
    /\ Cardinality(RecordsFor(out.conflicts, 1)) = 1
    /\ SevCount(out.conflicts, 1, "CERTAIN") = 1

(***************************************************************************)
(* Hunk harness: _find_overlapping_hunks applied to bounded lists of       *)
(* hunks; our_changes and their_changes hold the two lists of hunks.       *)
(***************************************************************************)
MaxStart == 6

MaxCount == 1

MaxHunks == 2

Hunks == {DiffHunk(st, ct, <<>>) : st \in 1..MaxStart, ct \in 0..MaxCount}

InitOverlap ==
    /\ commits = <<>>
    /\ refs = <<>>
    /\ HEAD = [branch |-> "", sha |-> 0]
    /\ our_changes \in SeqsUpTo(Hunks, MaxHunks)
    /\ their_changes \in SeqsUpTo(Hunks, MaxHunks)
    /\ hash_seed = 0
    /\ snapshots = <<>>
    /\ plugins = NoPlugins
    /\ out = NoOut

FindOverlappingHunks ==
    /\ out.op = "none"
    /\ out' = [op |-> "overlaps",
               overlaps |-> _find_overlapping_hunks(our_changes, their_changes)]
    /\ UNCHANGED <<commits, refs, HEAD, our_changes, their_changes, hash_seed, snapshots, plugins>>

NextOverlap == FindOverlappingHunks

SpecOverlap == InitOverlap /\ [][NextOverlap]_vars

\* the pairs (hunk of ours, hunk of theirs) the stated condition reports
ReportedPairs ==
    {ij \in (DOMAIN our_changes) \X (DOMAIN their_changes) :
        LET a0 == our_changes[ij[1]].old_start
            a1 == a0 + our_changes[ij[1]].old_count
            b0 == their_changes[ij[2]].old_start
            b1 == b0 + their_changes[ij[2]].old_count
        IN a0 <= b1 + 3 /\ b0 <= a1 + 3}

RangesOf(ij) ==
    <<  <<our_changes[ij[1]].old_start,
          our_changes[ij[1]].old_start + our_changes[ij[1]].old_count>>,
        <<their_changes[ij[2]].old_start,
          their_changes[ij[2]].old_start + their_changes[ij[2]].old_count>>  >>

\* C12: the returned list holds one range tuple per pair of hunks with
\* a0 <= b1 + 3 and b0 <= a1 + 3, and no other; for a1 <= b0 a pair is
\* reported exactly when the gap b0 - a1 is at most 3.
C12_OverlapIffWithinThreshold ==
    out.op = "overlaps" =>
        /\ Len(out.overlaps) = Cardinality(ReportedPairs)
        /\ \A ij \in (DOMAIN our_changes) \X (DOMAIN their_changes) :
              LET tuples == {n \in DOMAIN out.overlaps : out.overlaps[n] = RangesOf(ij)}
                  same == {kl \in ReportedPairs : RangesOf(kl) = RangesOf(ij)}
                  a1 == RangesOf(ij)[1][2]
                  b0 == RangesOf(ij)[2][1]
              IN /\ Cardinality(tuples) = Cardinality(same)
                 /\ a1 <= b0 => ((tuples # {}) <=> (b0 - a1 <= 3))

\* a gap of exactly 3 reported next to a gap of exactly 4 not reported
C12_Witness ==
    /\ out.op = "overlaps"
    /\ our_changes = <<DiffHunk(1, 1, <<>>)>>
    /\ their_changes = <<DiffHunk(5, 1, <<>>), DiffHunk(6, 0, <<>>)>>
    /\ out.overlaps = << <<  <<1, 2>>, <<5, 6>>  >> >>

(***************************************************************************)
(* core/repository.py: the object store seen through the Repository facade.*)
(***************************************************************************)
Commit(parents, tree) == [parents |-> parents, tree |-> tree]

\* Repository.head_sha: HEAD read through the symbolic ref when it has one
head_sha == IF HEAD.branch # "" THEN refs[HEAD.branch] ELSE HEAD.sha

\* Repository.head_branch: the branch name, "" (None) when HEAD is detached
head_branch == HEAD.branch

\* Exceptions are numbers no hash takes: 0 is RefNotFoundError, KeyError is
\* what dulwich raises for an object or a ref that is not there.
KeyError == -1

\* self._repo.head(): the hash HEAD points at; KeyError when its branch has
\* no commit yet
RepoHead ==
    IF HEAD.branch = "" THEN HEAD.sha
    ELSE IF HEAD.branch \in DOMAIN refs THEN refs[HEAD.branch]
    ELSE KeyError

\* the 40 characters of the hash of commit sha: the commits of a store share
\* their first seven characters and differ in the eighth
ShaText(sha) ==
    "abcdef0" \o ToString(sha) \o "00000000" \o "00000000" \o "00000000" \o "00000000"

IsHexChar(c) ==
    c \in {"0", "1", "2", "3", "4", "5", "6", "7", "8", "9", "a", "b", "c", "d", "e", "f"}

\* str.lower() and str.upper() on the letters of hashes and of "HEAD"
LowerChar(c) ==
    CASE c = "A" -> "a" [] c = "B" -> "b" [] c = "C" -> "c" [] c = "D" -> "d"
      [] c = "E" -> "e" [] c = "F" -> "f" [] c = "H" -> "h" [] OTHER -> c

UpperChar(c) ==
    CASE c = "a" -> "A" [] c = "b" -> "B" [] c = "c" -> "C" [] c = "d" -> "D"
      [] c = "e" -> "E" [] c = "f" -> "F" [] c = "h" -> "H" [] OTHER -> c

RECURSIVE LowerStr(_)
LowerStr(str) == IF str = "" THEN "" ELSE LowerChar(Head(str)) \o LowerStr(Tail(str))

RECURSIVE UpperStr(_)
UpperStr(str) == IF str = "" THEN "" ELSE UpperChar(Head(str)) \o UpperStr(Tail(str))

RECURSIVE AllHex(_)
AllHex(str) == str = "" \/ (IsHexChar(Head(str)) /\ AllHex(Tail(str)))

StartsWith(str, prefix) ==
    Len(prefix) <= Len(str) /\ SubSeq(str, 1, Len(prefix)) = prefix

\* str.isdigit() and int() on one character
IsDigit(c) == c \in {"0", "1", "2", "3", "4", "5", "6", "7", "8", "9"}

DigitValue(c) ==
    CASE c = "0" -> 0 [] c = "1" -> 1 [] c = "2" -> 2 [] c = "3" -> 3 [] c = "4" -> 4
      [] c = "5" -> 5 [] c = "6" -> 6 [] c = "7" -> 7 [] c = "8" -> 8 [] c = "9" -> 9

RECURSIVE DigitsEnd(_, _)
\* the inner while loop: the first position from i on that holds no digit
DigitsEnd(ref, i) ==
    IF i <= Len(ref) /\ IsDigit(SubSeq(ref, i, i)) THEN DigitsEnd(ref, i + 1) ELSE i

RECURSIVE DigitsValue(_, _, _)
\* n = n * 10 + int(ref[i]) over the digits from i on
DigitsValue(ref, i, n) ==
    IF i <= Len(ref) /\ IsDigit(SubSeq(ref, i, i))
    THEN DigitsValue(ref, i + 1, n * 10 + DigitValue(SubSeq(ref, i, i)))
    ELSE n

RECURSIVE FirstParents(_, _)
\* for _ in range(n): step to the first parent; RefNotFoundError without
\* parents, KeyError when the parent object is missing
FirstParents(current, n) ==
    IF n = 0 THEN current
    ELSE IF commits[current].parents = <<>> THEN 0
    ELSE IF commits[current].parents[1] \notin DOMAIN commits THEN KeyError
    ELSE FirstParents(commits[current].parents[1], n - 1)

\* n = n or 1
RelativeCount(n) == IF n = 0 THEN 1 ELSE n

RECURSIVE RelativeFrom(_, _, _)

\* the loop goes on from the commit a modifier led to, an exception ends it
RelativeNext(ref, next, target) ==
    IF target <= 0 THEN target ELSE RelativeFrom(ref, next, target)

\* one modifier: sign is ref[i], n the count read after it, next the
\* position after the count
RelativeModifier(ref, sign, n, next, current) ==
    IF sign = "~" THEN RelativeNext(ref, next, FirstParents(current, n))
    ELSE IF sign = "^"
    THEN IF n > Len(commits[current].parents) THEN 0
         ELSE RelativeFrom(ref, next, commits[current].parents[n])
    ELSE 0

\* the while loop of _resolve_relative_ref; i is the 1-based position in ref
RelativeFrom(ref, i, current) ==
    IF i > Len(ref) THEN current
    ELSE IF current \notin DOMAIN commits THEN KeyError
    ELSE RelativeModifier(ref, SubSeq(ref, i, i), RelativeCount(DigitsValue(ref, i + 1, 0)),
                          DigitsEnd(ref, i + 1), current)

\* _resolve_relative_ref: HEAD followed by ~N and ^N modifiers
_resolve_relative_ref(ref) ==
    IF RepoHead = KeyError THEN KeyError ELSE RelativeFrom(ref, 5, RepoHead)

\* the commits whose hash starts with prefix
PrefixMatches(prefix) == {c \in DOMAIN commits : StartsWith(ShaText(c), prefix)}

\* the tail of _resolve_ref: branch name, HEAD, relative ref (tags and
\* remote branches are not part of the model's repositories)
ResolveName(ref) ==
    IF ref \in DOMAIN refs THEN refs[ref]
    ELSE IF UpperStr(ref) = "HEAD" THEN RepoHead
    ELSE IF StartsWith(ref, "HEAD") THEN _resolve_relative_ref(ref)
    ELSE 0

\* what the hash branches of _resolve_ref leave when they fall through
NoMatch == -2

\* the short hash branch: the one commit whose hash starts with the prefix,
\* RefNotFoundError when several do
UniqueMatch(matches) ==
    IF Cardinality(matches) = 1 THEN CHOOSE c \in matches : TRUE
    ELSE IF Cardinality(matches) > 1 THEN 0
    ELSE NoMatch

\* the head of _resolve_ref: ref as a full hash of the store, then as a short
\* hash of seven or more hex characters; lower is ref.lower()
HashMatch(ref, lower) ==
    IF Len(ref) = 40 /\ \E c \in DOMAIN commits : ShaText(c) = ref
    THEN CHOOSE c \in DOMAIN commits : ShaText(c) = ref
    ELSE IF Len(ref) >= 7 /\ AllHex(lower) THEN UniqueMatch(PrefixMatches(lower))
    ELSE NoMatch

\* the name branches are tried only when the hash branches fell through
HashOrName(sha, name) == IF sha = NoMatch THEN name ELSE sha

\* _resolve_ref: a full hash, a unique short hash, a branch name, HEAD or a
\* relative ref; 0 for RefNotFoundError, KeyError for an unborn HEAD
_resolve_ref(ref) == HashOrName(HashMatch(ref, LowerStr(ref)), ResolveName(ref))

RECURSIVE CollectAncestors(_, _)
\* first loop of find_merge_base: the stack is popped from its end, a commit
\* seen before is skipped, the parents are pushed in their stored order
CollectAncestors(stack, ancestors1) ==
    IF stack = <<>> THEN ancestors1
    ELSE LET current == stack[Len(stack)]
             rest == SubSeq(stack, 1, Len(stack) - 1)
         IN IF current \in ancestors1
            THEN CollectAncestors(rest, ancestors1)
            ELSE CollectAncestors(rest \o commits[current].parents,
                                  ancestors1 \cup {current})

\* FirstCommon returning whatever is popped first, without the membership test
FirstCommon_NoMembership(stack, visited, ancestors1) == stack[Len(stack)]

RECURSIVE FirstCommon(_, _, _)
\* second loop of find_merge_base: depth-first from sha2, the first popped
\* commit that is in ancestors1 is returned; 0 (None) when the stack runs out
FirstCommon(stack, visited, ancestors1) ==
    IF stack = <<>> THEN 0
    ELSE LET current == stack[Len(stack)]
             rest == SubSeq(stack, 1, Len(stack) - 1)
         IN IF current \in visited
            THEN FirstCommon(rest, visited, ancestors1)
            ELSE IF current \in ancestors1
            THEN current
            ELSE FirstCommon(rest \o commits[current].parents,
                             visited \cup {current}, ancestors1)

\* find_merge_base on two resolved commits
find_merge_base(sha1, sha2) ==
    FirstCommon(<<sha2>>, {}, CollectAncestors(<<sha1>>, {}))

RECURSIVE Reach(_)
\* the commits reachable from the commits of S along parent links, S included
Reach(S) ==
    LET more == S \cup UNION {Range(commits[c].parents) : c \in S}
    IN IF more = S THEN S ELSE Reach(more)

\* walk_commits(include, exclude, max_entries=None): the commits reachable from
\* include and not from exclude, children before parents and newest first
WalkAll(include, exclude) == Reverse(SortedSeq(Reach(include) \ Reach(exclude)))

\* walk_commits with max_entries: the walk stops after that many commits
walk_commits(include, exclude, max_entries) ==
    LET all == WalkAll(include, exclude)
    IN SubSeq(all, 1, Min({Len(all), max_entries}))

\* self._repo[sha]: the object of a resolved hash, KeyError when it is
\* missing; an exception of the resolution passes through
ReadCommit(sha) ==
    IF sha <= 0 THEN sha
    ELSE IF sha \notin DOMAIN commits THEN KeyError
    ELSE sha

\* get_commit: the commit a name resolves to, 0 for RefNotFoundError, KeyError
\* when the name cannot be read or the object it resolves to is missing
get_commit(ref) == ReadCommit(_resolve_ref(ref))

\* A blob is a one-line file and its hash stands for the text of that line, so
\* two different blobs at one path differ in the same line.
\* get_tree_changes: dulwich's tree_changes without a rename detector yields
\* add, delete and modify entries in path order; _tree_change_to_file_change
\* copies paths and hashes and attaches no hunks.
get_tree_changes(old_tree, new_tree) ==
    LET changed == {p \in DOMAIN new_tree : old_tree[p] # new_tree[p]}
        order == SortedSeq(changed)
    IN [n \in DOMAIN order |->
          LET p == order[n]
          IN FileChange(p,
                        IF old_tree[p] = 0 THEN "ADD"
                        ELSE IF new_tree[p] = 0 THEN "DELETE" ELSE "MODIFY",
                        0, new_tree[p], <<>>)]

\* get_commit_changes: against the FIRST parent, a root against the empty tree
get_commit_changes(sha) ==
    IF commits[sha].parents = <<>>
    THEN get_tree_changes([p \in DOMAIN commits[sha].tree |-> 0], commits[sha].tree)
    ELSE get_tree_changes(commits[commits[sha].parents[1]].tree, commits[sha].tree)

\* build_graph taking the head from the commits it is given, not from HEAD
build_graph_HeadFromArgs(shas, max_commits) ==
    [head_sha |-> Max(shas),
     head_branch |-> head_branch,
     branch_tips |-> [b \in {x \in DOMAIN refs : refs[x] \in shas} |-> refs[b]],
     commits |-> Range(walk_commits(shas, {}, max_commits))]

\* build_graph called with commit hashes: HEAD as the repository has it, the
\* branches whose tip is one of the given commits, the first max_commits
\* commits of the walk
build_graph(shas, max_commits) ==
    [head_sha |-> head_sha,
     head_branch |-> head_branch,
     branch_tips |-> [b \in {x \in DOMAIN refs : refs[x] \in shas} |-> refs[b]],
     commits |-> Range(walk_commits(shas, {}, max_commits))]

(***************************************************************************)
(* core/diff_analyzer.py: patch-ids.                                       *)
(***************************************************************************)
\* _normalize_for_patch_id on the diff of two trees: the "diff --git" and
\* "index" lines go, the ---/+++ lines with the paths and the -/+ lines with
\* the old and new text stay, in path order
_normalize_for_patch_id(old_tree, new_tree) ==
    LET order == SortedSeq({p \in DOMAIN new_tree : old_tree[p] # new_tree[p]})
    IN [n \in DOMAIN order |-> <<order[n], old_tree[order[n]], new_tree[order[n]]>>]

\* compute_patch_id: a root commit hashes its own commit hash, any other commit
\* hashes the normalised diff against its first parent
compute_patch_id(sha) ==
    IF commits[sha].parents = <<>>
    THEN [root |-> sha, diff |-> <<>>]
    ELSE [root |-> 0,
          diff |-> _normalize_for_patch_id(commits[commits[sha].parents[1]].tree,
                                           commits[sha].tree)]

\* collect_patch_ids over walk_commits(include, exclude)
collect_patch_ids(include, exclude) ==
    {compute_patch_id(c) : c \in Range(WalkAll(include, exclude))}

(***************************************************************************)
(* Merge-base harness: find_merge_base on every small commit DAG, merges   *)
(* and unrelated roots included.                                           *)
(***************************************************************************)
MaxCommits == 4

MaxParents == 2

\* the parent lists a commit i can have: distinct older commits, in any order
ParentLists(i) ==
    {ps \in SeqsUpTo(1..(i - 1), MaxParents) :
        \A m, n \in DOMAIN ps : m # n => ps[m] # ps[n]}

EmptyTree == [p \in 1..NumPaths |-> 0]

RECURSIVE Dags(_)
\* the parent lists of object stores of n commits, built commit by commit
Dags(n) ==
    IF n = 0 THEN {<<>>}
    ELSE {Append(cs, ps) : cs \in Dags(n - 1), ps \in ParentLists(n)}

InitMergeBase ==
    /\ \E n \in 1..MaxCommits : \E cs \in Dags(n) :
          /\ commits = [i \in 1..n |-> Commit(cs[i], EmptyTree)]
          /\ refs \in [{"main", "feature"} -> 1..n]
    /\ HEAD = [branch |-> "main", sha |-> 0]
    /\ our_changes = <<>>
    /\ their_changes = <<>>
    /\ hash_seed = 0
    /\ snapshots = <<>>
    /\ plugins = NoPlugins
    /\ out = NoOut

MergeBase ==
    /\ out.op = "none"
    /\ out' = [op |-> "find_merge_base",
               sha1 |-> _resolve_ref("main"),
               sha2 |-> _resolve_ref("feature"),
               base |-> find_merge_base(_resolve_ref("main"), _resolve_ref("feature"))]
    /\ UNCHANGED <<commits, refs, HEAD, our_changes, their_changes, hash_seed, snapshots, plugins>>

NextMergeBase == MergeBase

SpecMergeBase == InitMergeBase /\ [][NextMergeBase]_vars

(***************************************************************************)
(* Claims about find_merge_base, checked under SpecMergeBase.              *)
(***************************************************************************)
CommonAncestors(a, b) == Reach({a}) \cap Reach({b})

\* C4: find_merge_base(a, b) returns a commit reachable from both tips, and
\* returns None exactly when the two tips have no common ancestor.
C4_MergeBaseIsCommon ==
    out.op = "find_merge_base" =>
        /\ out.base # 0 => out.base \in CommonAncestors(out.sha1, out.sha2)
        /\ out.base = 0 <=> CommonAncestors(out.sha1, out.sha2) = {}

\* a merge base found for two tips neither of which is an ancestor of the other
C4_Witness ==
    /\ out.op = "find_merge_base"
    /\ out.base # 0
    /\ out.base \notin {out.sha1, out.sha2}
    /\ out.sha1 \notin Reach({out.sha2})
    /\ out.sha2 \notin Reach({out.sha1})

\* C5: every common ancestor of a and b is an ancestor of find_merge_base(a, b)
\* (the result is the nearest common ancestor), on every DAG, merges included.
C5_NearestCommonAncestor ==
    (out.op = "find_merge_base" /\ out.base # 0) =>
        \A x \in CommonAncestors(out.sha1, out.sha2) : x \in Reach({out.base})

(***************************************************************************)
(* simulation/rebase.py                                                    *)
(***************************************************************************)
RebaseBeforeGraphMax == 30

\* _generate_simulated_sha: a hash of (commit, onto, step index); distinct
\* triples give distinct hashes, none of them a hash of the object store
_generate_simulated_sha(commit, onto_sha, step_index) ==
    1000 + 100 * commit + 10 * onto_sha + step_index

RebaseStep(original_sha, new_sha, conflicts, will_be_skipped, accumulated) ==
    [original_sha |-> original_sha, action |-> "pick", new_sha |-> new_sha,
     conflicts |-> conflicts, will_be_skipped |-> will_be_skipped,
     accumulated |-> accumulated]

\* what validate() hands back: the pair (errors, warnings), or an exception
\* that no except clause of validate() catches; an error entry is its message
\* followed by the refs the message names
ValidateResult(errors, warnings) == [raised |-> FALSE, errors |-> errors, warnings |-> warnings]

ValidateRaised == [raised |-> TRUE, errors |-> <<>>, warnings |-> <<>>]

\* RebaseSimulator.validate: (errors, warnings)
RebaseValidate(source, onto) ==
    LET source_commit == get_commit(source)
        onto_commit == get_commit(onto)
        merge_base == find_merge_base(source_commit, onto_commit)
        same == IF source_commit = onto_commit THEN <<"same commit">> ELSE <<>>
    IN IF source_commit = KeyError THEN ValidateRaised
       ELSE IF source_commit = 0
       THEN ValidateResult(<< <<"Source ref not found", source>> >>, <<>>)
       ELSE IF onto_commit = KeyError THEN ValidateRaised
       ELSE IF onto_commit = 0
       THEN ValidateResult(<< <<"Target ref not found", onto>> >>, <<>>)
       ELSE IF merge_base = 0
       THEN ValidateResult(<< <<"No common ancestor found", source, onto>> >>, same)
       ELSE ValidateResult(<<>>,
                same
                \o (IF merge_base = onto_commit THEN <<"already based">> ELSE <<>>)
                \o (IF merge_base = source_commit THEN <<"onto is ahead">> ELSE <<>>))

\* _collect_commits_to_replay: the walk source \ merge-base, oldest first
_collect_commits_to_replay(merge_base_sha, source_sha) ==
    Reverse(WalkAll({source_sha}, {merge_base_sha}))

_collect_onto_patch_ids(merge_base_sha, onto_sha) ==
    collect_patch_ids({onto_sha}, {merge_base_sha})

\* _collect_accumulated_changes: the changes of the onto-side commits, in walk
\* order (newest commit first)
_collect_accumulated_changes(merge_base_sha, onto_sha) ==
    LET walk == WalkAll({onto_sha}, {merge_base_sha})
    IN Flatten([n \in DOMAIN walk |-> get_commit_changes(walk[n])])

\* the buffer after a step with every commit's changes appended, skipped or not
ExtendAccumulated_Always(accumulated, commit_changes, will_skip) ==
    accumulated \o commit_changes

\* the buffer after a step: a skipped commit's changes are not appended
ExtendAccumulated(accumulated, commit_changes, will_skip) ==
    IF will_skip THEN accumulated ELSE accumulated \o commit_changes

RECURSIVE SimulateStepsFrom(_, _, _, _, _)
\* the loop of _simulate_steps; each step also records the buffer as the loop
\* leaves it (a history field, not a field of the program's RebaseStep)
SimulateStepsFrom(todo, onto_patch_ids, accumulated_changes, onto_sha, steps) ==
    IF todo = <<>> THEN steps
    ELSE LET commit == Head(todo)
             patch_id == compute_patch_id(commit)
             will_skip == patch_id \in onto_patch_ids
             commit_changes == get_commit_changes(commit)
             conflicts == IF will_skip THEN <<>>
                          ELSE detect_conflicts(accumulated_changes, commit_changes)
             new_sha == _generate_simulated_sha(commit, onto_sha, Len(steps))
             after == ExtendAccumulated(accumulated_changes, commit_changes, will_skip)
             step == RebaseStep(commit, IF will_skip THEN 0 ELSE new_sha,
                                conflicts, will_skip, after)
         IN SimulateStepsFrom(Tail(todo), onto_patch_ids, after, onto_sha,
                              Append(steps, step))

_simulate_steps(commits_to_replay, onto_patch_ids, onto_changes, onto_sha) ==
    SimulateStepsFrom(commits_to_replay, onto_patch_ids, onto_changes, onto_sha, <<>>)

RebaseBeforeGraph(source_sha, onto_sha) ==
    build_graph({source_sha, onto_sha}, RebaseBeforeGraphMax)

RebaseAfterGraphMax == 15

\* the new hashes of the steps that are replayed
NewShas(steps) == {steps[i].new_sha : i \in DOMAIN steps} \ {0}

\* RebasedCommits with every simulated commit put on the onto tip
RebasedCommits_AllOnOnto(steps, previous_sha, added) ==
    LET kept == SelectSeq(steps, LAMBDA st : ~st.will_be_skipped /\ st.new_sha # 0)
    IN added \o [n \in DOMAIN kept |->
                    [sha |-> kept[n].new_sha, parent_shas |-> <<previous_sha>>]]

RECURSIVE RebasedCommits(_, _, _)
\* the loop of _build_after_graph over the steps: one simulated commit per
\* step that is not skipped, its parent the previous simulated commit
RebasedCommits(steps, previous_sha, added) ==
    IF steps = <<>> THEN added
    ELSE IF Head(steps).will_be_skipped \/ Head(steps).new_sha = 0
    THEN RebasedCommits(Tail(steps), previous_sha, added)
    ELSE RebasedCommits(Tail(steps), Head(steps).new_sha,
                        Append(added, [sha |-> Head(steps).new_sha,
                                       parent_shas |-> <<previous_sha>>]))

\* _build_after_graph: head at the last step's new hash (at onto when there is
\* no step or the last one is skipped), onto's history, the replayed commits;
\* synthesized lists the simulated commits in the order they are added
RebaseAfterGraph(steps, onto_commit, source, onto) ==
    LET head == IF steps # <<>> /\ steps[Len(steps)].new_sha # 0
                THEN steps[Len(steps)].new_sha ELSE onto_commit
        source_branch == IF source = "HEAD"
                         THEN (IF head_branch # "" THEN head_branch ELSE "source")
                         ELSE source
    IN [head_sha |-> head,
        head_branch |-> head_branch,
        branch_tips |-> (onto :> onto_commit) @@ (source_branch :> head),
        synthesized |-> RebasedCommits(steps, onto_commit, <<>>),
        commits |-> Range(walk_commits({_resolve_ref(onto)}, {}, RebaseAfterGraphMax))
                       \cup NewShas(steps)]

\* RebaseSimulator.simulate, validation having found no error
RebaseSimulate(source, onto) ==
    LET source_commit == get_commit(source)
        onto_commit == get_commit(onto)
        merge_base_sha == find_merge_base(source_commit, onto_commit)
        commits_to_replay == _collect_commits_to_replay(merge_base_sha, source_commit)
        onto_patch_ids == _collect_onto_patch_ids(merge_base_sha, onto_commit)
        onto_changes == _collect_accumulated_changes(merge_base_sha, onto_commit)
    IN [source_branch |-> IF source = "HEAD"
                          THEN (IF head_branch # "" THEN head_branch ELSE "HEAD")
                          ELSE source,
        target_branch |-> onto,
        onto_sha |-> onto_commit,
        merge_base_sha |-> merge_base_sha,
        onto_changes |-> onto_changes,    \* history: the buffer before step 1
        steps |-> _simulate_steps(commits_to_replay, onto_patch_ids, onto_changes,
                                  onto_commit),
        before_graph |-> RebaseBeforeGraph(source_commit, onto_commit),
        after_graph |-> RebaseAfterGraph(
            _simulate_steps(commits_to_replay, onto_patch_ids, onto_changes, onto_commit),
            onto_commit, source, onto)]

\* has_conflicts of RebaseSimulation and CherryPickSimulation: any step has one
StepsHaveConflicts(steps) == \E i \in DOMAIN steps : steps[i].conflicts # <<>>

\* [c for step in steps for c in step.conflicts]
StepConflicts(steps) == Flatten([i \in DOMAIN steps |-> steps[i].conflicts])

\* SafetyInfo: reasons and suggestions are texts and are left out
SafetyInfo(danger_level, reversible, requires_force_push) ==
    [danger_level |-> danger_level, reversible |-> reversible,
     requires_force_push |-> requires_force_push]

\* the fields of SimulationResult the simulators fill in
SimulationResult(operation_type, success, before_graph, after_graph, conflicts, warnings, new_head_sha, steps) ==
    [operation_type |-> operation_type, success |-> success,
     before_graph |-> before_graph, after_graph |-> after_graph,
     conflicts |-> conflicts, warnings |-> warnings,
     new_head_sha |-> new_head_sha, steps |-> steps,
     safety_info |-> None]

\* SimulationResult.conflict_count
conflict_count(result) == Len(result.conflicts)

\* RebaseSimulation.to_simulation_result
RebaseToResult(sim) ==
    SimulationResult("REBASE", ~StepsHaveConflicts(sim.steps),
                     sim.before_graph, sim.after_graph, StepConflicts(sim.steps),
                     <<>>,
                     IF sim.steps # <<>> THEN sim.steps[Len(sim.steps)].new_sha ELSE 0,
                     [i \in DOMAIN sim.steps |->
                         [step_number |-> i,
                          action |-> sim.steps[i].action,
                          original_sha |-> sim.steps[i].original_sha,
                          new_sha |-> sim.steps[i].new_sha,
                          conflicts |-> sim.steps[i].conflicts,
                          will_be_skipped |-> sim.steps[i].will_be_skipped]])

(***************************************************************************)
(* BaseSimulator.run for the rebase simulator, on repositories with files. *)
(***************************************************************************)
\* BaseSimulator.run up to the raise: validate() was called and its results
\* stored; an exception of validate() passes through run() before anything is
\* stored, a non-empty errors list raises SimulationError with the messages.
\* The record keeps the methods called, in order, and what the warnings
\* property returns afterwards.  This variant loses the messages.
RunRaised_NoMessages(kind, args, v) ==
    [op |-> kind, args |-> args, raised |-> TRUE, error |-> "SimulationError", errors |-> <<>>,
     warnings |-> v.warnings, validated |-> FALSE, calls |-> <<"validate">>]

RunRaised(kind, args, v) ==
    IF v.raised
    THEN [op |-> kind, args |-> args, raised |-> TRUE, error |-> "KeyError", errors |-> <<>>,
          warnings |-> <<>>, validated |-> FALSE, calls |-> <<"validate">>]
    ELSE [op |-> kind, args |-> args, raised |-> TRUE, error |-> "SimulationError",
          errors |-> v.errors, warnings |-> v.warnings, validated |-> FALSE,
          calls |-> <<"validate">>]

\* BaseSimulator.run past the check: _validated is set and simulate() returns
RunReturned(kind, args, v, sim) ==
    [op |-> kind, args |-> args, raised |-> FALSE, error |-> "", errors |-> <<>>,
     warnings |-> v.warnings, validated |-> TRUE, calls |-> <<"validate", "simulate">>,
     sim |-> sim]

\* BaseSimulator.run: v is what validate() gave and sim what simulate()
\* gives, which is asked for only past the check
Run(kind, args, v, sim) ==
    IF v.raised \/ v.errors # <<>>
    THEN RunRaised(kind, args, v)
    ELSE RunReturned(kind, args, v, sim)

\* BaseSimulator.run of the rebase simulator
RebaseRun(source, onto) ==
    Run("rebase", <<source, onto>>, RebaseValidate(source, onto), RebaseSimulate(source, onto))

RebaseCommits == 4

RebaseMaxParents == 1

MaxBlob == 3

RootBlob == 1

Paths == 1..NumPaths

\* what a commit does to the tree of its first parent: nothing (<<0, 0>>) or
\* one path set to a blob (0 deletes it)
Deltas == {<<0, 0>>} \cup (Paths \X (0..MaxBlob))

ApplyDelta(tree, delta) ==
    IF delta[1] = 0 THEN tree ELSE [tree EXCEPT ![delta[1]] = delta[2]]

RECURSIVE HistoriesUpTo(_)
\* the parent lists of n commits grown from one root
HistoriesUpTo(n) ==
    IF n = 1 THEN {<< <<>> >>}
    ELSE {Append(h, ps) : h \in HistoriesUpTo(n - 1),
                          ps \in {q \in ParentLists(n) : Len(q) \in 1..RebaseMaxParents}}

Histories == HistoriesUpTo(RebaseCommits)

\* the object store of a history, a root tree and one delta per later commit
StoreOf(h, root, deltas) ==
    LET cs[i \in 1..RebaseCommits] ==
            IF i = 1 THEN Commit(<<>>, root)
            ELSE Commit(h[i], ApplyDelta(cs[h[i][1]].tree, deltas[i]))
    IN cs

\* a delta that names a path changes it
RealDeltas(store, deltas) ==
    \A i \in 2..RebaseCommits :
        deltas[i][1] # 0 => store[i].tree[deltas[i][1]] # store[store[i].parents[1]].tree[deltas[i][1]]

InitRebase ==
    /\ \E h \in Histories : \E root \in [Paths -> 0..RootBlob] :
          \E deltas \in [2..RebaseCommits -> Deltas] :
             /\ RealDeltas(StoreOf(h, root, deltas), deltas)
             /\ commits = StoreOf(h, root, deltas)
    /\ refs \in [{"main", "feature"} -> 1..RebaseCommits]
    /\ HEAD = [branch |-> "feature", sha |-> 0]
    /\ our_changes = <<>>
    /\ their_changes = <<>>
    /\ hash_seed = 0
    /\ snapshots = <<>>
    /\ plugins = NoPlugins
    /\ out = NoOut

\* git-sim rebase main, the source being HEAD
Rebase ==
    /\ out.op = "none"
    /\ out' = RebaseRun("HEAD", "main")
    /\ UNCHANGED <<commits, refs, HEAD, our_changes, their_changes, hash_seed, snapshots, plugins>>

NextRebase == Rebase

SpecRebase == InitRebase /\ [][NextRebase]_vars

(***************************************************************************)
(* Claims about the rebase simulation, checked under SpecRebase.           *)
(***************************************************************************)
RebaseDone == out.op = "rebase" /\ ~out.raised

\* the commits of merge-base (exclusive) .. onto (inclusive)
OntoSide == Reach({out.sim.onto_sha}) \ Reach({out.sim.merge_base_sha})

\* the paths the changes of a commit name, as path or as old path
PathsOf(sha) ==
    LET ch == get_commit_changes(sha)
    IN {ch[k].path : k \in DOMAIN ch} \cup ({ch[k].old_path : k \in DOMAIN ch} \ {0})

SamePatchOnOnto(sha) ==
    \E c \in OntoSide : compute_patch_id(c) = compute_patch_id(sha)

BufferBefore(i) ==
    IF i = 1 THEN out.sim.onto_changes ELSE out.sim.steps[i - 1].accumulated

\* C3: a rebase step is marked will_be_skipped with an empty new hash exactly
\* when the patch-id of its commit is among the patch-ids of the commits of
\* merge-base (exclusive) .. onto (inclusive); a skipped step carries no
\* conflicts and leaves the accumulated buffer as it was.
C3_SkipIffSamePatchId ==
    RebaseDone =>
        \A i \in DOMAIN out.sim.steps :
            LET st == out.sim.steps[i]
            IN /\ (st.will_be_skipped /\ st.new_sha = 0) <=> SamePatchOnOnto(st.original_sha)
               /\ st.will_be_skipped <=> st.new_sha = 0
               /\ st.will_be_skipped =>
                     st.conflicts = <<>> /\ st.accumulated = BufferBefore(i)

\* a skipped commit that changes a file, followed by a commit that is replayed
C3_Witness ==
    /\ RebaseDone
    /\ \E i, j \in DOMAIN out.sim.steps :
          /\ i < j
          /\ out.sim.steps[i].will_be_skipped
          /\ get_commit_changes(out.sim.steps[i].original_sha) # <<>>
          /\ ~out.sim.steps[j].will_be_skipped

\* the onto-side commits that modify path p
OntoModifiers(p) ==
    {c \in OntoSide :
        \E k \in DOMAIN get_commit_changes(c) :
            /\ get_commit_changes(c)[k].path = p
            /\ get_commit_changes(c)[k].change_type = "MODIFY"}

\* the replayed commit modifies p, to a content no onto-side commit gave it
ModifiesDifferently(sha, p) ==
    /\ \E k \in DOMAIN get_commit_changes(sha) :
          /\ get_commit_changes(sha)[k].path = p
          /\ get_commit_changes(sha)[k].change_type = "MODIFY"
    /\ \A c \in OntoModifiers(p) : commits[c].tree[p] # commits[sha].tree[p]

\* C6: when onto-side commits and a replayed commit both modify the same lines
\* of the same file with different content, the step of that commit carries
\* exactly one conflict on that path, of severity CERTAIN.
C6_SameLinesCertain ==
    RebaseDone =>
        \A i \in DOMAIN out.sim.steps : \A p \in Paths :
            LET st == out.sim.steps[i]
            IN (OntoModifiers(p) # {} /\ ModifiesDifferently(st.original_sha, p)) =>
                  /\ Cardinality(RecordsFor(st.conflicts, p)) = 1
                  /\ \A r \in RecordsFor(st.conflicts, p) :
                        st.conflicts[r].severity = "CERTAIN"

\* C7: when no path changed by the onto-side commits is changed (as path or
\* old path) by any replayed commit, no step carries a conflict and no step
\* is skipped, whatever paths the replayed commits share among themselves.
C7_DisjointNoConflict ==
    RebaseDone =>
        LET ontoPaths == UNION {PathsOf(c) : c \in OntoSide}
            replayPaths == UNION {PathsOf(out.sim.steps[i].original_sha) :
                                     i \in DOMAIN out.sim.steps}
        IN ontoPaths \cap replayPaths = {} =>
              \A i \in DOMAIN out.sim.steps :
                  /\ out.sim.steps[i].conflicts = <<>>
                  /\ ~out.sim.steps[i].will_be_skipped

(***************************************************************************)
(* simulation/merge.py                                                     *)
(***************************************************************************)
MergeBeforeGraphMax == 30

MergeFastForwardGraphMax == 20

MergeAfterGraphMax == 15

\* MergeSimulator.validate: (errors, warnings)
MergeValidate(source, target, no_ff) ==
    LET source_commit == get_commit(source)
        target_commit == get_commit(target)
        merge_base == find_merge_base(source_commit, target_commit)
        same == IF source_commit = target_commit THEN <<"same commit">> ELSE <<>>
    IN IF source_commit <= 0
       THEN ValidateResult(<< <<"Source branch not found", source>> >>, <<>>)
       ELSE IF target_commit <= 0
       THEN ValidateResult(<< <<"Target branch not found", target>> >>, <<>>)
       ELSE IF merge_base = 0
       THEN ValidateResult(<< <<"No common ancestor found", source, target>> >>, same)
       ELSE ValidateResult(<<>>,
                same
                \o (IF merge_base = target_commit
                    THEN (IF no_ff THEN <<"fast-forward possible, --no-ff given">>
                          ELSE <<"fast-forward merge">>)
                    ELSE <<>>)
                \o (IF merge_base = source_commit THEN <<"already merged">> ELSE <<>>))

\* _collect_changes: the changes of the commits of from..to, newest commit first
_collect_changes(from_sha, to_sha) ==
    LET walk == WalkAll({to_sha}, {from_sha})
    IN Flatten([n \in DOMAIN walk |-> get_commit_changes(walk[n])])

\* _find_clean_merges without the conflict paths taken out
_find_clean_merges_AllChanged(source_changes, target_changes, conflicts) ==
    SortedSeq({source_changes[i].path : i \in DOMAIN source_changes}
              \cup {target_changes[i].path : i \in DOMAIN target_changes})

\* _find_clean_merges: the paths changed on one side only, and those changed
\* on both without a conflict record, sorted
_find_clean_merges(source_changes, target_changes, conflicts) ==
    LET conflict_paths == {conflicts[i].path : i \in DOMAIN conflicts}
        source_paths == {source_changes[i].path : i \in DOMAIN source_changes}
        target_paths == {target_changes[i].path : i \in DOMAIN target_changes}
    IN SortedSeq((source_paths \ target_paths) \cup (target_paths \ source_paths)
                 \cup ((source_paths \cap target_paths) \ conflict_paths))

\* _generate_merge_commit_sha: a hash of ("merge", source, target)
_generate_merge_commit_sha(source_sha, target_sha) == 3000 + 10 * source_sha + target_sha

MergeBeforeGraph(source_sha, target_sha) ==
    build_graph({source_sha, target_sha}, MergeBeforeGraphMax)

\* the parents of the merge commit with the source put first
MergeCommitParents_SourceFirst(source_commit, target_commit) == <<source_commit, target_commit>>

\* parent_shas of the synthesized merge commit
MergeCommitParents(source_commit, target_commit) == <<target_commit, source_commit>>

\* _build_after_graph of the merge simulator; synthesized holds the parents of
\* the commits of the graph that are not commits of the repository
MergeAfterGraph(source_commit, target_commit, merge_commit_sha, is_fast_forward, source, target) ==
    LET head == IF is_fast_forward THEN source_commit ELSE merge_commit_sha
        target_branch == IF target = "HEAD"
                         THEN (IF head_branch # "" THEN head_branch ELSE "target")
                         ELSE target
    IN [head_sha |-> head,
        head_branch |-> target_branch,
        branch_tips |-> (source :> source_commit) @@ (target_branch :> head),
        synthesized |-> IF is_fast_forward THEN <<>>
                        ELSE (merge_commit_sha :> MergeCommitParents(source_commit, target_commit)),
        commits |-> IF is_fast_forward
                    THEN Range(walk_commits({source_commit}, {}, MergeFastForwardGraphMax))
                    ELSE {merge_commit_sha}
                         \cup Range(walk_commits({target_commit}, {}, MergeAfterGraphMax))
                         \cup Range(walk_commits({source_commit}, {}, MergeAfterGraphMax))]

\* MergeSimulator.simulate, both refs resolving and a merge base existing
MergeSimulate(source, target, no_ff) ==
    LET source_commit == get_commit(source)
        target_commit == get_commit(target)
        merge_base_sha == find_merge_base(source_commit, target_commit)
        is_fast_forward == merge_base_sha = target_commit /\ ~no_ff
        source_changes == _collect_changes(merge_base_sha, source_commit)
        target_changes == _collect_changes(merge_base_sha, target_commit)
        conflicts == detect_conflicts(target_changes, source_changes)
        merge_commit_sha == IF is_fast_forward THEN 0
                            ELSE _generate_merge_commit_sha(source_commit, target_commit)
    IN [source_branch |-> source,
        target_branch |-> IF target = "HEAD"
                          THEN (IF head_branch # "" THEN head_branch ELSE "HEAD")
                          ELSE target,
        merge_base_sha |-> merge_base_sha,
        merge_commit_sha |-> IF is_fast_forward THEN source_commit ELSE merge_commit_sha,
        is_fast_forward |-> is_fast_forward,
        conflicts |-> conflicts,
        files_merged_cleanly |-> _find_clean_merges(source_changes, target_changes, conflicts),
        before_graph |-> MergeBeforeGraph(source_commit, target_commit),
        after_graph |-> MergeAfterGraph(source_commit, target_commit, merge_commit_sha,
                                        is_fast_forward, source, target)]

\* MergeSimulation.to_simulation_result
MergeToResult(sim) ==
    SimulationResult("MERGE", ~(Len(sim.conflicts) > 0),
                     sim.before_graph, sim.after_graph, sim.conflicts,
                     IF sim.is_fast_forward THEN <<"fast-forward merge possible">> ELSE <<>>,
                     sim.merge_commit_sha, <<>>)

(***************************************************************************)
(* simulation/reset.py                                                     *)
(***************************************************************************)
ResetGraphMax == 20

\* parse_reset_mode: unknown names fall back to MIXED
parse_reset_mode(mode_str) ==
    IF mode_str = "soft" THEN "SOFT" ELSE IF mode_str = "hard" THEN "HARD" ELSE "MIXED"

\* _count_commits_between: how many commits head has that base has not
_count_commits_between(base_sha, head) == Len(WalkAll({head}, {base_sha}))

\* ResetSimulator.validate: (errors, warnings)
ResetValidate(target, mode) ==
    LET target_commit == get_commit(target)
        current_commit == get_commit("HEAD")
    IN IF target_commit <= 0
       THEN ValidateResult(<< <<"Target ref not found", target>> >>, <<>>)
       ELSE IF current_commit <= 0
       THEN ValidateResult(<< <<"Cannot determine current HEAD", "HEAD">> >>, <<>>)
       ELSE IF target_commit = current_commit
       THEN ValidateResult(<<>>, <<"already at target">>)
       ELSE ValidateResult(<<>>,
                (IF _count_commits_between(target_commit, current_commit) > 0
                 THEN <<"commits will become unreachable">> ELSE <<>>)
                \o <<mode>>)

\* _find_detached_commits: the walk from current, cut at the first occurrence
\* of target (the whole walk when target is not met)
_find_detached_commits(target_sha, current_sha) ==
    IF target_sha = current_sha THEN <<>>
    ELSE LET walk == WalkAll({current_sha}, {})
             hit == {n \in DOMAIN walk : walk[n] = target_sha}
         IN IF hit = {} THEN walk ELSE SubSeq(walk, 1, Min(hit) - 1)

\* the paths changed by the detached commits, sorted
ResetAffectedFiles(commits_detached) ==
    SortedSeq(UNION {{get_commit_changes(c)[k].path : k \in DOMAIN get_commit_changes(c)} :
                        c \in Range(commits_detached)})

ResetBeforeGraph(current_sha) == build_graph({current_sha}, ResetGraphMax)

\* _build_after_graph of the reset simulator
ResetAfterGraph(target_commit, detached_commits) ==
    [head_sha |-> target_commit,
     head_branch |-> head_branch,
     branch_tips |-> [b \in {head_branch} \ {""} |-> target_commit],
     commits |-> Range(walk_commits({target_commit}, {}, ResetGraphMax))
                    \cup Range(detached_commits)]

\* ResetSimulator.simulate, the target resolving
ResetSimulate(target, mode) ==
    LET current_commit == get_commit("HEAD")
        target_commit == get_commit(target)
        commits_detached == _find_detached_commits(target_commit, current_commit)
    IN [target_sha |-> target_commit,
        mode |-> mode,
        current_sha |-> current_commit,
        commits_detached |-> commits_detached,
        files_unstaged |-> IF mode = "MIXED" THEN ResetAffectedFiles(commits_detached) ELSE <<>>,
        files_discarded |-> IF mode = "HARD" THEN ResetAffectedFiles(commits_detached) ELSE <<>>,
        before_graph |-> ResetBeforeGraph(current_commit),
        after_graph |-> ResetAfterGraph(target_commit, commits_detached)]

\* the danger level computed from the detached commits alone, whatever the mode
ResetDanger_IgnoresMode(sim) == IF sim.commits_detached # <<>> THEN "MEDIUM" ELSE "LOW"

\* the danger level ResetSimulation.to_simulation_result attaches
ResetDanger(sim) ==
    IF sim.mode = "HARD"
    THEN (IF sim.files_discarded # <<>> THEN "HIGH" ELSE "MEDIUM")
    ELSE IF sim.commits_detached # <<>> THEN "MEDIUM" ELSE "LOW"

\* ResetSimulation.to_simulation_result
ResetToResult(sim) ==
    [SimulationResult("RESET", TRUE, sim.before_graph, sim.after_graph, <<>>,
                     (IF sim.commits_detached # <<>>
                      THEN <<"commits will become unreachable">> ELSE <<>>)
                     \o (IF sim.files_discarded # <<>>
                         THEN <<"files will have changes discarded">> ELSE <<>>),
                     sim.target_sha, <<>>)
        EXCEPT !.safety_info = SafetyInfo(ResetDanger(sim), sim.mode # "HARD", FALSE)]

(***************************************************************************)
(* simulation/cherry_pick.py                                               *)
(***************************************************************************)
CherryPickHistoryMax == 1000

CherryPickDepth == 10

CherryPickBeforeGraphMax == 30

CherryPickAfterGraphMax == 15

\* the refs of a list that resolve to no commit, one error each
MissingRefs(commit_refs) == SelectSeq(commit_refs, LAMBDA r : get_commit(r) <= 0)

\* CherryPickSimulator.validate: (errors, warnings)
CherryPickValidate(commit_refs, target) ==
    LET target_history == Range(walk_commits({get_commit(target)}, {}, CherryPickHistoryMax))
        resolved == [i \in DOMAIN commit_refs |-> get_commit(commit_refs[i])]
        in_history == SelectSeq(resolved, LAMBDA c : c \in target_history)
        merges == SelectSeq(resolved, LAMBDA c : Len(commits[c].parents) > 1)
        missing == MissingRefs(commit_refs)
    IN IF get_commit(target) <= 0
       THEN ValidateResult(<< <<"Target ref not found", target>> >>, <<>>)
       ELSE IF missing # <<>>
       THEN ValidateResult([i \in DOMAIN missing |-> <<"Commit not found", missing[i]>>], <<>>)
       ELSE ValidateResult(<<>>,
                [i \in DOMAIN in_history |-> "already in target history"]
                \o [i \in DOMAIN merges |-> "merge commit"])

\* _get_recent_changes: the changes of the last depth commits of the target
_get_recent_changes(from_sha, depth) ==
    LET walk == walk_commits({from_sha}, {}, depth)
    IN Flatten([n \in DOMAIN walk |-> get_commit_changes(walk[n])])

\* _generate_picked_sha: a hash of ("cherry-pick", original, onto, step)
_generate_picked_sha(original_sha, onto_sha, step) ==
    10000 + 100 * onto_sha + 10 * original_sha + step

\* _simulate_pick: one OperationStep
_simulate_pick(commit, current_head, accumulated_changes, step_number) ==
    [step_number |-> step_number,
     action |-> "pick",
     original_sha |-> commit,
     new_sha |-> _generate_picked_sha(commit, current_head, step_number),
     conflicts |-> detect_conflicts(accumulated_changes, get_commit_changes(commit)),
     will_be_skipped |-> FALSE]

RECURSIVE PickFrom(_, _, _, _)
\* the loop of simulate: every picked commit's changes join the buffer
PickFrom(todo, simulated_head, accumulated_changes, steps) ==
    IF todo = <<>> THEN steps
    ELSE LET step == _simulate_pick(Head(todo), simulated_head, accumulated_changes,
                                    Len(steps) + 1)
         IN PickFrom(Tail(todo),
                     IF step.new_sha # 0 THEN step.new_sha ELSE simulated_head,
                     accumulated_changes \o get_commit_changes(Head(todo)),
                     Append(steps, step))

CherryPickBeforeGraph(target_sha, source_shas) ==
    build_graph({target_sha} \cup Range(source_shas), CherryPickBeforeGraphMax)

\* PickedCommits with every simulated commit put on the target tip
PickedCommits_AllOnTarget(steps, previous_sha, added) ==
    LET picked == SelectSeq(steps, LAMBDA st : st.new_sha # 0)
    IN added \o [n \in DOMAIN picked |->
                    [sha |-> picked[n].new_sha, parent_shas |-> <<previous_sha>>]]

RECURSIVE PickedCommits(_, _, _)
\* the loop of _build_after_graph over the steps: one simulated commit per
\* step with a new hash, its parent the previous simulated commit
PickedCommits(steps, previous_sha, added) ==
    IF steps = <<>> THEN added
    ELSE IF Head(steps).new_sha = 0
    THEN PickedCommits(Tail(steps), previous_sha, added)
    ELSE PickedCommits(Tail(steps), Head(steps).new_sha,
                       Append(added, [sha |-> Head(steps).new_sha,
                                      parent_shas |-> <<previous_sha>>]))

\* _build_after_graph of the cherry-pick simulator; synthesized lists the
\* simulated commits in the order they are added
CherryPickAfterGraph(target_commit, steps, target) ==
    LET head == IF NewShas(steps) = {} THEN target_commit
                ELSE steps[Max({i \in DOMAIN steps : steps[i].new_sha # 0})].new_sha
        target_branch == IF target = "HEAD"
                         THEN (IF head_branch # "" THEN head_branch ELSE "target")
                         ELSE target
    IN [head_sha |-> head,
        head_branch |-> head_branch,
        branch_tips |-> (target_branch :> head),
        synthesized |-> PickedCommits(steps, target_commit, <<>>),
        commits |-> Range(walk_commits({target_commit}, {}, CherryPickAfterGraphMax))
                       \cup NewShas(steps)]

\* CherryPickSimulator.simulate, every ref resolving
CherryPickSimulate(commit_refs, target) ==
    LET commits_to_pick == [i \in DOMAIN commit_refs |-> get_commit(commit_refs[i])]
        target_commit == get_commit(target)
        steps == PickFrom(commits_to_pick, target_commit,
                          _get_recent_changes(target_commit, CherryPickDepth), <<>>)
    IN [commits_to_pick |-> commits_to_pick,
        target_branch |-> IF target = "HEAD"
                          THEN (IF head_branch # "" THEN head_branch ELSE "HEAD")
                          ELSE target,
        steps |-> steps,
        before_graph |-> CherryPickBeforeGraph(target_commit, commits_to_pick),
        after_graph |-> CherryPickAfterGraph(target_commit, steps, target)]

\* CherryPickSimulation.to_simulation_result
CherryPickToResult(sim) ==
    SimulationResult("CHERRY_PICK", ~StepsHaveConflicts(sim.steps),
                     sim.before_graph, sim.after_graph, StepConflicts(sim.steps),
                     <<>>, 0, sim.steps)

(***************************************************************************)
(* simulation/base.py: run = validate, raise on errors, else simulate.     *)
(***************************************************************************)
MergeRun(source, target, no_ff) ==
    Run("merge", <<source, target, no_ff>>, MergeValidate(source, target, no_ff),
        MergeSimulate(source, target, no_ff))

ResetRun(target, mode) ==
    Run("reset", <<target, mode>>, ResetValidate(target, mode), ResetSimulate(target, mode))

CherryPickRun(commit_refs, target) ==
    Run("cherry_pick", <<commit_refs, target>>, CherryPickValidate(commit_refs, target),
        CherryPickSimulate(commit_refs, target))

(***************************************************************************)
(* simulation/dispatcher.py                                                *)
(***************************************************************************)
Raised(what) == [op |-> "dispatch", raised |-> TRUE, error |-> what]

Returned(result) == [op |-> "dispatch", raised |-> FALSE, result |-> result]

\* the safety information the rebase handler attaches, without the force push
RebaseSafety_NoForcePush(has_conflicts) ==
    SafetyInfo(IF has_conflicts THEN "HIGH" ELSE "MEDIUM", TRUE, FALSE)

\* the safety information the handlers attach; reversible and
\* requires_force_push keep their defaults (True, False) unless given
RebaseSafety(has_conflicts) ==
    SafetyInfo(IF has_conflicts THEN "HIGH" ELSE "MEDIUM", TRUE, TRUE)

MergeSafety(has_conflicts) ==
    SafetyInfo(IF has_conflicts THEN "MEDIUM" ELSE "LOW", TRUE, FALSE)

CherryPickSafety(has_conflicts) ==
    SafetyInfo(IF ~has_conflicts THEN "LOW" ELSE "MEDIUM", TRUE, FALSE)

\* the handlers: run the simulator, convert, append the validation warnings,
\* attach the safety information
\* the handlers past simulator.run(): r is what run() gave
RebaseHandled(r) ==
    IF r.raised THEN Raised(r.error)
    ELSE Returned([RebaseToResult(r.sim) EXCEPT
                     !.warnings = @ \o r.warnings,
                     !.safety_info = RebaseSafety(StepsHaveConflicts(r.sim.steps))])

MergeHandled(r) ==
    IF r.raised THEN Raised(r.error)
    ELSE Returned([MergeToResult(r.sim) EXCEPT
                     !.warnings = @ \o r.warnings,
                     !.safety_info = MergeSafety(Len(r.sim.conflicts) > 0)])

ResetHandled(r) ==
    IF r.raised THEN Raised(r.error)
    ELSE Returned([ResetToResult(r.sim) EXCEPT !.warnings = @ \o r.warnings])

CherryPickHandled(r) ==
    IF r.raised THEN Raised(r.error)
    ELSE Returned([CherryPickToResult(r.sim) EXCEPT
                     !.warnings = @ \o r.warnings,
                     !.safety_info = CherryPickSafety(StepsHaveConflicts(r.sim.steps))])

_simulate_rebase(kwargs) == RebaseHandled(RebaseRun(kwargs.source, kwargs.onto))

_simulate_merge(kwargs) == MergeHandled(MergeRun(kwargs.source, kwargs.target, kwargs.no_ff))

_simulate_reset(kwargs) == ResetHandled(ResetRun(kwargs.target, parse_reset_mode(kwargs.mode)))

_simulate_cherry_pick(kwargs) == CherryPickHandled(CherryPickRun(kwargs.commits, kwargs.target))

\* command.lower().replace("-", "_") on the command names used here
LowerUnderscore(command) ==
    CASE command = "Rebase" -> "rebase"
      [] command = "MERGE" -> "merge"
      [] command = "cherry-pick" -> "cherry_pick"
      [] OTHER -> command

\* SimulationDispatcher.simulate
simulate(command, kwargs) ==
    LET command_lower == LowerUnderscore(command)
    IN IF command_lower = "rebase" THEN _simulate_rebase(kwargs)
       ELSE IF command_lower = "merge" THEN _simulate_merge(kwargs)
       ELSE IF command_lower = "reset" THEN _simulate_reset(kwargs)
       ELSE IF command_lower \in {"cherry_pick", "cherrypick"} THEN _simulate_cherry_pick(kwargs)
       ELSE Raised("ValueError")

\* A command string is modelled by the list of words str.split() makes of it.
\* arg.startswith("-")
IsOption(arg) == StartsWith(arg, "-")

NonOptions(args) == SelectSeq(args, LAMBDA a : ~IsOption(a))

Parsed(operation, args) == [raised |-> FALSE, operation |-> operation, args |-> args]

ParseError == [raised |-> TRUE]

RECURSIVE ParseRebaseFrom(_, _, _)
\* the loop of _parse_rebase_command; onto is "" while "onto" is not in parsed
ParseRebaseFrom(args, i, onto) ==
    IF i > Len(args) THEN onto
    ELSE IF args[i] \in {"--onto", "-o"} /\ i + 1 <= Len(args)
    THEN ParseRebaseFrom(args, i + 2, args[i + 1])
    ELSE IF ~IsOption(args[i])
    THEN ParseRebaseFrom(args, i + 1, IF onto = "" THEN args[i] ELSE onto)
    ELSE ParseRebaseFrom(args, i + 1, onto)

_parse_rebase_command(args) ==
    IF ParseRebaseFrom(args, 1, "") = "" THEN ParseError
    ELSE Parsed("REBASE", [source |-> "HEAD", onto |-> ParseRebaseFrom(args, 1, "")])

\* the last word that is not an option is the source
_parse_merge_command(args) ==
    IF NonOptions(args) = <<>> THEN ParseError
    ELSE Parsed("MERGE", [target |-> "HEAD",
                          no_ff |-> \E i \in DOMAIN args : args[i] = "--no-ff",
                          source |-> NonOptions(args)[Len(NonOptions(args))]])

\* the last mode option and the last word that is not an option
_parse_reset_command(args) ==
    LET modes == SelectSeq(args, LAMBDA a : a \in {"--hard", "--soft", "--mixed"})
        last == IF modes = <<>> THEN "--mixed" ELSE modes[Len(modes)]
    IN IF NonOptions(args) = <<>> THEN ParseError
       ELSE Parsed("RESET", [mode |-> IF last = "--hard" THEN "hard"
                                      ELSE IF last = "--soft" THEN "soft" ELSE "mixed",
                             target |-> NonOptions(args)[Len(NonOptions(args))]])

_parse_cherry_pick_command(args) ==
    IF NonOptions(args) = <<>> THEN ParseError
    ELSE Parsed("CHERRY_PICK", [commits |-> NonOptions(args), target |-> "HEAD"])

\* parts[0].lower() on the command words used here
Lower(word) == IF word = "Rebase" THEN "rebase" ELSE IF word = "MERGE" THEN "merge" ELSE word

\* SimulationDispatcher.parse_command
parse_command(parts) ==
    IF parts = <<>> THEN ParseError
    ELSE LET command == Lower(Head(parts))
             args == Tail(parts)
         IN IF command = "rebase" THEN _parse_rebase_command(args)
            ELSE IF command = "merge" THEN _parse_merge_command(args)
            ELSE IF command = "reset" THEN _parse_reset_command(args)
            ELSE IF command \in {"cherry-pick", "cherrypick"}
            THEN _parse_cherry_pick_command(args)
            ELSE ParseError

\* operation_map of run_from_string
CommandName(operation) ==
    CASE operation = "REBASE" -> "rebase"
      [] operation = "MERGE" -> "merge"
      [] operation = "RESET" -> "reset"
      [] operation = "CHERRY_PICK" -> "cherry_pick"

\* run_from_string past the parse: a parse failure is raised, else the parsed
\* operation and arguments go to simulate()
SimulateParsed(parsed) ==
    IF parsed.raised THEN Raised("ValueError")
    ELSE simulate(CommandName(parsed.operation), parsed.args)

\* SimulationDispatcher.run_from_string
run_from_string(parts) == SimulateParsed(parse_command(parts))

(***************************************************************************)
(* The simulators and the dispatcher called on small repositories.         *)
(***************************************************************************)
SimulateRaised(kind) == [op |-> "simulate", kind |-> kind, raised |-> TRUE]

SimulateReturned(kind, sim) == [op |-> "simulate", kind |-> kind, raised |-> FALSE, sim |-> sim]

Validated(kind, v) ==
    [op |-> "validate", kind |-> kind, raised |-> v.raised, errors |-> v.errors,
     warnings |-> v.warnings]

\* simulate() called without validate(): get_commit raises RefNotFoundError on
\* an unknown ref, a missing merge base raises ValueError
RebaseSimulateCall(source, onto) ==
    IF get_commit(source) <= 0 \/ get_commit(onto) <= 0 THEN SimulateRaised("rebase")
    ELSE IF find_merge_base(get_commit(source), get_commit(onto)) = 0
    THEN SimulateRaised("rebase")
    ELSE SimulateReturned("rebase", RebaseSimulate(source, onto))

MergeSimulateCall(source, target, no_ff) ==
    IF get_commit(source) <= 0 \/ get_commit(target) <= 0 THEN SimulateRaised("merge")
    ELSE IF find_merge_base(get_commit(source), get_commit(target)) = 0
    THEN SimulateRaised("merge")
    ELSE SimulateReturned("merge", MergeSimulate(source, target, no_ff))

ResetSimulateCall(target, mode) ==
    IF get_commit("HEAD") <= 0 \/ get_commit(target) <= 0 THEN SimulateRaised("reset")
    ELSE SimulateReturned("reset", ResetSimulate(target, mode))

CherryPickSimulateCall(commit_refs, target) ==
    IF MissingRefs(commit_refs) # <<>> \/ get_commit(target) <= 0
    THEN SimulateRaised("cherry_pick")
    ELSE SimulateReturned("cherry_pick", CherryPickSimulate(commit_refs, target))

OpsCommits == 3

OpsBlob == 2

\* the files of these repositories: one path, the other paths stay absent
OpsDeltas == {<<0, 0>>} \cup ({1} \X (0..OpsBlob))

RECURSIVE OpsStoresUpTo(_)
\* parent lists and deltas of n commits, built commit by commit
OpsStoresUpTo(n) ==
    IF n = 0 THEN {<<>>}
    ELSE {Append(cs, [parents |-> ps, delta |-> dl]) :
             cs \in OpsStoresUpTo(n - 1), ps \in ParentLists(n), dl \in OpsDeltas}

OpsStores == OpsStoresUpTo(OpsCommits)

\* the object store of parent lists and deltas: a root starts from the empty
\* tree, any other commit from the tree of its first parent
OpsStoreOf(cs) ==
    LET st[i \in 1..OpsCommits] ==
            Commit(cs[i].parents,
                   ApplyDelta(IF cs[i].parents = <<>> THEN EmptyTree
                              ELSE st[cs[i].parents[1]].tree, cs[i].delta))
    IN st

\* a delta that names a path changes it
OpsRealDeltas(cs) ==
    \A i \in 1..OpsCommits :
        cs[i].delta[1] # 0 =>
            OpsStoreOf(cs)[i].tree[1] #
                (IF cs[i].parents = <<>> THEN 0 ELSE OpsStoreOf(cs)[cs[i].parents[1]].tree[1])

Modes == {"SOFT", "MIXED", "HARD"}

PickLists == {<<"main">>, <<"feature">>, <<"main", "feature">>, <<"nope", "main">>}

InitOps ==
    /\ \E cs \in OpsStores : OpsRealDeltas(cs) /\ commits = OpsStoreOf(cs)
    /\ refs \in [{"main", "feature"} -> 1..OpsCommits]
    /\ refs.feature = OpsCommits
    /\ HEAD \in {[branch |-> "main", sha |-> 0], [branch |-> "feature", sha |-> 0],
                 [branch |-> "", sha |-> 1]}
    /\ our_changes = <<>>
    /\ their_changes = <<>>
    /\ hash_seed = 0
    /\ snapshots = <<>>
    /\ plugins = NoPlugins
    /\ out = NoOut

RebaseValidateOp ==
    /\ out.op = "none"
    /\ \E source \in {"HEAD", "nope"}, onto \in {"main", "nope"} :
          out' = Validated("rebase", RebaseValidate(source, onto))
    /\ UNCHANGED <<commits, refs, HEAD, our_changes, their_changes, hash_seed, snapshots, plugins>>

RebaseSimulateOp ==
    /\ out.op = "none"
    /\ \E source \in {"HEAD", "nope"}, onto \in {"main", "nope"} :
          out' = RebaseSimulateCall(source, onto)
    /\ UNCHANGED <<commits, refs, HEAD, our_changes, their_changes, hash_seed, snapshots, plugins>>

RebaseRunOp ==
    /\ out.op = "none"
    /\ \E source \in {"HEAD", "feature", "nope"}, onto \in {"main", "nope"} :
          out' = RebaseRun(source, onto)
    /\ UNCHANGED <<commits, refs, HEAD, our_changes, their_changes, hash_seed, snapshots, plugins>>

MergeValidateOp ==
    /\ out.op = "none"
    /\ \E source \in {"main", "feature", "nope"}, no_ff \in BOOLEAN :
          out' = Validated("merge", MergeValidate(source, "HEAD", no_ff))
    /\ UNCHANGED <<commits, refs, HEAD, our_changes, their_changes, hash_seed, snapshots, plugins>>

MergeSimulateOp ==
    /\ out.op = "none"
    /\ \E source \in {"main", "feature", "nope"}, no_ff \in BOOLEAN :
          out' = MergeSimulateCall(source, "HEAD", no_ff)
    /\ UNCHANGED <<commits, refs, HEAD, our_changes, their_changes, hash_seed, snapshots, plugins>>

MergeRunOp ==
    /\ out.op = "none"
    /\ \E source \in {"main", "feature", "nope"}, target \in {"HEAD", "main"} : \E no_ff \in BOOLEAN :
          out' = MergeRun(source, target, no_ff)
    /\ UNCHANGED <<commits, refs, HEAD, our_changes, their_changes, hash_seed, snapshots, plugins>>

ResetValidateOp ==
    /\ out.op = "none"
    /\ \E target \in {"main", "HEAD", "nope"}, mode \in Modes :
          out' = Validated("reset", ResetValidate(target, mode))
    /\ UNCHANGED <<commits, refs, HEAD, our_changes, their_changes, hash_seed, snapshots, plugins>>

ResetSimulateOp ==
    /\ out.op = "none"
    /\ \E target \in {"main", "HEAD", "nope"}, mode \in Modes :
          out' = ResetSimulateCall(target, mode)
    /\ UNCHANGED <<commits, refs, HEAD, our_changes, their_changes, hash_seed, snapshots, plugins>>

ResetRunOp ==
    /\ out.op = "none"
    /\ \E target \in {"main", "HEAD", "nope"}, mode \in Modes :
          out' = ResetRun(target, mode)
    /\ UNCHANGED <<commits, refs, HEAD, our_changes, their_changes, hash_seed, snapshots, plugins>>

\* ResetSimulator.run followed by ResetSimulation.to_simulation_result
ResetToSimulationResultOp ==
    /\ out.op = "none"
    /\ \E target \in {"main", "HEAD"}, mode \in Modes :
          \E r \in {ResetRun(target, mode)} :
             /\ ~r.raised
             /\ out' = [op |-> "reset_result", raised |-> FALSE,
                        sim |-> r.sim, result |-> ResetToResult(r.sim)]
    /\ UNCHANGED <<commits, refs, HEAD, our_changes, their_changes, hash_seed, snapshots, plugins>>

CherryPickValidateOp ==
    /\ out.op = "none"
    /\ \E commit_refs \in PickLists, target \in {"HEAD", "nope"} :
          out' = Validated("cherry_pick", CherryPickValidate(commit_refs, target))
    /\ UNCHANGED <<commits, refs, HEAD, our_changes, their_changes, hash_seed, snapshots, plugins>>

CherryPickSimulateOp ==
    /\ out.op = "none"
    /\ \E commit_refs \in PickLists, target \in {"HEAD", "nope"} :
          out' = CherryPickSimulateCall(commit_refs, target)
    /\ UNCHANGED <<commits, refs, HEAD, our_changes, their_changes, hash_seed, snapshots, plugins>>

CherryPickRunOp ==
    /\ out.op = "none"
    /\ \E commit_refs \in PickLists, target \in {"HEAD", "main"} :
          out' = CherryPickRun(commit_refs, target)
    /\ UNCHANGED <<commits, refs, HEAD, our_changes, their_changes, hash_seed, snapshots, plugins>>

\* the keyword arguments a caller passes with each command name
KwargsOf(command) ==
    IF LowerUnderscore(command) = "rebase"
    THEN [onto : {"main", "nope"}, source : {"HEAD", "feature"}]
    ELSE IF LowerUnderscore(command) = "merge"
    THEN [source : {"main", "feature", "nope"}, target : {"HEAD"}, no_ff : BOOLEAN]
    ELSE IF LowerUnderscore(command) = "reset"
    THEN [target : {"main", "nope"}, mode : {"soft", "hard", "keep"}]
    ELSE [commits : PickLists, target : {"HEAD"}]

CommandNames == {"rebase", "Rebase", "MERGE", "reset", "cherry-pick", "cherrypick", "revert"}

CommandStrings ==
    {<<>>, <<"rebase">>, <<"rebase", "main">>, <<"Rebase", "-i", "main", "feature">>,
     <<"rebase", "--onto", "main", "feature">>, <<"rebase", "--onto">>,
     <<"merge", "feature">>, <<"MERGE", "--no-ff", "main">>, <<"merge", "--no-ff">>,
     <<"merge", "main", "nope">>,
     <<"reset", "--hard", "main">>, <<"reset", "--soft", "main", "--mixed">>,
     <<"reset", "--hard">>, <<"reset", "nope">>,
     <<"cherry-pick", "feature">>, <<"cherrypick", "main", "feature">>,
     <<"cherry-pick", "-i">>, <<"revert", "main">>}

DispatcherSimulateOp ==
    /\ out.op = "none"
    /\ \E command \in CommandNames : \E kwargs \in KwargsOf(command) :
          out' = simulate(command, kwargs)
    /\ UNCHANGED <<commits, refs, HEAD, our_changes, their_changes, hash_seed, snapshots, plugins>>

RunFromStringOp ==
    /\ out.op = "none"
    /\ \E parts \in CommandStrings :
          out' = run_from_string(parts)
    /\ UNCHANGED <<commits, refs, HEAD, our_changes, their_changes, hash_seed, snapshots, plugins>>

NextOps ==
    \/ RebaseValidateOp
    \/ RebaseSimulateOp
    \/ RebaseRunOp
    \/ MergeValidateOp
    \/ MergeSimulateOp
    \/ MergeRunOp
    \/ ResetValidateOp
    \/ ResetSimulateOp
    \/ ResetRunOp
    \/ ResetToSimulationResultOp
    \/ CherryPickValidateOp
    \/ CherryPickSimulateOp
    \/ CherryPickRunOp
    \/ DispatcherSimulateOp
    \/ RunFromStringOp

SpecOps == InitOps /\ [][NextOps]_vars

(***************************************************************************)
(* Claims about the simulators and the dispatcher, checked under SpecOps.  *)
(***************************************************************************)
Dispatched == out.op = "dispatch" /\ ~out.raised

\* C1: the uniform result of rebase, merge and cherry-pick has success true
\* exactly when none of its conflicts is CERTAIN (a result whose conflicts are
\* all LIKELY is a success), and conflict_count is the length of the conflicts.
C1_SuccessIffNoCertain ==
    (Dispatched /\ out.result.operation_type \in {"REBASE", "MERGE", "CHERRY_PICK"}) =>
        /\ out.result.success <=>
              \A i \in DOMAIN out.result.conflicts : ~is_certain(out.result.conflicts[i])
        /\ conflict_count(out.result) = Len(out.result.conflicts)

\* a call that returned a simulation, which carries a before-graph
ReturnedGraph(o) ==
    o.op \in {"rebase", "merge", "reset", "cherry_pick", "simulate", "dispatch"} /\ ~o.raised

BeforeGraphOf(o) == IF o.op = "dispatch" THEN o.result.before_graph ELSE o.sim.before_graph

\* C2: validate, simulate and run of the four simulators, and the dispatcher's
\* simulate and run_from_string, leave the refs, HEAD and the objects as they
\* were, and the head_sha of the before-graph is the repository's HEAD at the
\* start of the call.
C2_ReadOnly ==
    [][/\ repoVars' = repoVars
       /\ ReturnedGraph(out') => BeforeGraphOf(out').head_sha = head_sha]_vars

\* a simulation returned while HEAD is detached at a commit that is no branch tip
C2_Witness ==
    /\ ReturnedGraph(out)
    /\ out.op = "dispatch"
    /\ HEAD.branch = ""
    /\ \A b \in DOMAIN refs : refs[b] # head_sha
    /\ BeforeGraphOf(out).head_sha = head_sha


(***************************************************************************)
(* Claims about BaseSimulator.run, checked under SpecOps.                  *)
(***************************************************************************)
RunKinds == {"rebase", "merge", "reset", "cherry_pick"}

\* what validate() returns for the arguments a run() was given
ValidateOf(o) ==
    CASE o.op = "rebase" -> RebaseValidate(o.args[1], o.args[2])
      [] o.op = "merge" -> MergeValidate(o.args[1], o.args[2], o.args[3])
      [] o.op = "reset" -> ResetValidate(o.args[1], o.args[2])
      [] o.op = "cherry_pick" -> CherryPickValidate(o.args[1], o.args[2])

\* what simulate() returns for the arguments a run() was given
SimulateOf(o) ==
    CASE o.op = "rebase" -> RebaseSimulate(o.args[1], o.args[2])
      [] o.op = "merge" -> MergeSimulate(o.args[1], o.args[2], o.args[3])
      [] o.op = "reset" -> ResetSimulate(o.args[1], o.args[2])
      [] o.op = "cherry_pick" -> CherryPickSimulate(o.args[1], o.args[2])

\* C13: run() calls validate first; with at least one error it raises
\* SimulationError carrying the messages and simulate is not called; with no
\* error simulate is called once and its record returned; either way the
\* warnings property then returns the warnings of validate.
C13_RunValidatesFirst ==
    (out.op \in RunKinds /\ ~ValidateOf(out).raised) =>
        LET v == ValidateOf(out)
        IN /\ Head(out.calls) = "validate"
           /\ v.errors # <<>> =>
                 /\ out.raised /\ out.error = "SimulationError"
                 /\ out.errors = v.errors
                 /\ out.calls = <<"validate">>
           /\ v.errors = <<>> =>
                 /\ ~out.raised
                 /\ out.calls = <<"validate", "simulate">>
                 /\ out.sim = SimulateOf(out)
           /\ out.warnings = v.warnings

\* a run whose validate found the onto ref missing
C13_Witness ==
    /\ out.op = "rebase" /\ out.raised
    /\ out.errors = << <<"Target ref not found", "nope">> >>
    /\ out.calls = <<"validate">>


(***************************************************************************)
(* Claims about the reset simulation, checked under SpecOps.               *)
(***************************************************************************)
\* the reset simulation an operation returned
ResetDone ==
    \/ out.op = "reset" /\ ~out.raised
    \/ out.op = "simulate" /\ out.kind = "reset" /\ ~out.raised

\* C15: commits_detached holds exactly the commits reachable from the current
\* tip and not from the target, never the target, and nothing when the target
\* is the current tip.
C15_DetachedExactlyUnreachable ==
    ResetDone =>
        /\ Range(out.sim.commits_detached)
              = Reach({out.sim.current_sha}) \ Reach({out.sim.target_sha})
        /\ out.sim.target_sha \notin Range(out.sim.commits_detached)
        /\ out.sim.target_sha = out.sim.current_sha => out.sim.commits_detached = <<>>

\* C16: the uniform result of a reset simulation carries a safety record:
\* HIGH for HARD with discarded files, MEDIUM for HARD without, MEDIUM for
\* SOFT or MIXED with detached commits, LOW otherwise; reversible is false
\* exactly for HARD.
C16_ResetSafety ==
    out.op = "reset_result" =>
        LET safety == out.result.safety_info
            sim == out.sim
        IN /\ safety # None
           /\ (sim.mode = "HARD" /\ sim.files_discarded # <<>>) => safety.danger_level = "HIGH"
           /\ (sim.mode = "HARD" /\ sim.files_discarded = <<>>) => safety.danger_level = "MEDIUM"
           /\ (sim.mode \in {"SOFT", "MIXED"} /\ sim.commits_detached # <<>>)
                 => safety.danger_level = "MEDIUM"
           /\ (sim.mode \in {"SOFT", "MIXED"} /\ sim.commits_detached = <<>>)
                 => safety.danger_level = "LOW"
           /\ (safety.reversible = FALSE) <=> (sim.mode = "HARD")

C16_Witness ==
    /\ out.op = "reset_result"
    /\ out.sim.mode = "HARD" /\ out.sim.files_discarded # <<>>
    /\ out.result.safety_info.danger_level = "HIGH"
    /\ ~out.result.safety_info.reversible

(***************************************************************************)
(* Claims about the dispatcher's results, checked under SpecOps.           *)
(***************************************************************************)
\* C17: every result the dispatcher returns carries a safety record; rebase:
\* HIGH with conflicts, MEDIUM without, force push required, reversible;
\* merge and cherry-pick: MEDIUM with conflicts, LOW without, reversible, no
\* force push.
C17_DispatcherSafety ==
    Dispatched =>
        LET result == out.result
            safety == result.safety_info
            has_conflicts == Len(result.conflicts) > 0
        IN /\ safety # None
           /\ result.operation_type = "REBASE" =>
                 /\ safety.danger_level = (IF has_conflicts THEN "HIGH" ELSE "MEDIUM")
                 /\ safety.requires_force_push /\ safety.reversible
           /\ result.operation_type \in {"MERGE", "CHERRY_PICK"} =>
                 /\ safety.danger_level = (IF has_conflicts THEN "MEDIUM" ELSE "LOW")
                 /\ safety.reversible /\ ~safety.requires_force_push

C17_Witness ==
    /\ Dispatched
    /\ out.result.operation_type = "REBASE"
    /\ Len(out.result.conflicts) > 0
    /\ out.result.safety_info = SafetyInfo("HIGH", TRUE, TRUE)

(***************************************************************************)
(* Claims about the merge simulation, checked under SpecOps.               *)
(***************************************************************************)
MergeDone == out.op = "merge" /\ ~out.raised

\* C18: is_fast_forward holds exactly when the merge base is the target tip
\* (the target is an ancestor of the source) and no_ff is false; a
\* fast-forward synthesizes no commit and the after-graph's head is the source
\* tip; otherwise the head is a synthesized commit with parents (target tip,
\* source tip).
C18_FastForward ==
    MergeDone =>
        LET sim == out.sim
            source_tip == get_commit(out.args[1])
            target_tip == get_commit(out.args[2])
            no_ff == out.args[3]
            after == sim.after_graph
        IN /\ sim.is_fast_forward <=> (sim.merge_base_sha = target_tip /\ ~no_ff)
           /\ sim.is_fast_forward <=> (target_tip \in Reach({source_tip}) /\ ~no_ff)
           /\ sim.is_fast_forward =>
                 /\ after.commits \subseteq DOMAIN commits
                 /\ DOMAIN after.synthesized = {}
                 /\ after.head_sha = source_tip
           /\ ~sim.is_fast_forward =>
                 /\ after.head_sha \notin DOMAIN commits
                 /\ after.head_sha \in after.commits
                 /\ DOMAIN after.synthesized = {after.head_sha}
                 /\ after.synthesized[after.head_sha] = <<target_tip, source_tip>>

\* a true merge of two diverged branches
C18_Witness ==
    /\ MergeDone
    /\ ~out.sim.is_fast_forward /\ ~out.args[3]
    /\ get_commit(out.args[1]) # get_commit(out.args[2])
    /\ out.sim.merge_base_sha \notin {get_commit(out.args[1]), get_commit(out.args[2])}
    /\ out.sim.after_graph.synthesized[out.sim.after_graph.head_sha]
          = <<get_commit(out.args[2]), get_commit(out.args[1])>>

(***************************************************************************)
(* Parse harness: parse_command applied to rebase command strings, given   *)
(* as the words str.split() makes of them.                                 *)
(***************************************************************************)
MaxArgs == 4

ParseWords == {"main", "feature", "--onto", "-o", "--source", "-s"}

InitParse ==
    /\ commits = <<>>
    /\ refs = <<>>
    /\ HEAD = [branch |-> "", sha |-> 0]
    /\ our_changes = <<>>
    /\ their_changes = <<>>
    /\ hash_seed = 0
    /\ snapshots = <<>>
    /\ plugins = NoPlugins
    /\ out = NoOut

ParseCommandOp ==
    /\ out.op = "none"
    /\ \E args \in SeqsUpTo(ParseWords, MaxArgs) :
          out' = [op |-> "parse", args |-> args, parsed |-> parse_command(<<"rebase">> \o args)]
    /\ UNCHANGED <<commits, refs, HEAD, our_changes, their_changes, hash_seed, snapshots, plugins>>

NextParse == ParseCommandOp

SpecParse == InitParse /\ [][NextParse]_vars

ParseRefs == {"main", "feature"}

\* the ways to write onto = x and source = y
OntoForms(x) == {<<x>>, <<"--onto", x>>, <<"-o", x>>}

SourceForms(y) == {<<"--source", y>>, <<"-s", y>>}

\* C19: parse_command on a rebase string yields onto = the positional
\* argument or the value after --onto / -o, and source = the value after
\* --source / -s if given, HEAD otherwise, in every order of the flags and
\* the positional argument; without an onto it fails.
C19_ParseRebase ==
    out.op = "parse" =>
        \A x \in ParseRefs, y \in ParseRefs :
            /\ out.args \in OntoForms(x) =>
                  /\ ~out.parsed.raised
                  /\ out.parsed.operation = "REBASE"
                  /\ out.parsed.args.onto = x /\ out.parsed.args.source = "HEAD"
            /\ out.args \in {o \o t : o \in OntoForms(x), t \in SourceForms(y)}
                              \cup {t \o o : o \in OntoForms(x), t \in SourceForms(y)} =>
                  /\ ~out.parsed.raised
                  /\ out.parsed.args.onto = x /\ out.parsed.args.source = y
            /\ out.args \in {<<>>} \cup SourceForms(y) => out.parsed.raised

(***************************************************************************)
(* Relative-ref harness: _resolve_ref applied to HEAD followed by ~N and   *)
(* ^N modifiers, on histories with merges.                                 *)
(***************************************************************************)
MaxMods == 2

\* a modifier as written: the sign and the digits after it ("" when omitted)
Modifiers == [sign : {"~", "^"}, digits : {"", "0", "1", "2", "3"}]

RECURSIVE RefText(_)
\* the text of the modifiers
RefText(mods) ==
    IF mods = <<>> THEN "" ELSE Head(mods).sign \o Head(mods).digits \o RefText(Tail(mods))

InitRelative ==
    /\ \E n \in 1..MaxCommits : \E cs \in Dags(n) : \E tip \in 1..n :
          /\ commits = [i \in 1..n |-> Commit(cs[i], EmptyTree)]
          /\ refs = [b \in {"main"} |-> tip]
    /\ HEAD = [branch |-> "main", sha |-> 0]
    /\ our_changes = <<>>
    /\ their_changes = <<>>
    /\ hash_seed = 0
    /\ snapshots = <<>>
    /\ plugins = NoPlugins
    /\ out = NoOut

ResolveRelative ==
    /\ out.op = "none"
    /\ \E mods \in SeqsUpTo(Modifiers, MaxMods) :
          out' = [op |-> "resolve", mods |-> mods, ref |-> "HEAD" \o RefText(mods),
                  sha |-> _resolve_ref("HEAD" \o RefText(mods))]
    /\ UNCHANGED <<commits, refs, HEAD, our_changes, their_changes, hash_seed, snapshots, plugins>>

NextRelative == ResolveRelative

SpecRelative == InitRelative /\ [][NextRelative]_vars

RECURSIVE Ancestor(_, _)
\* n steps along first-parent edges, 0 when a step has no parent to take
Ancestor(c, n) ==
    IF n = 0 THEN c
    ELSE IF commits[c].parents = <<>> THEN 0
    ELSE Ancestor(commits[c].parents[1], n - 1)

RECURSIVE Applied(_, _)
\* the modifiers applied left to right as stated: ~N is N first-parent steps
\* (one when N is omitted), ^N the N-th parent (the first when omitted)
Applied(mods, c) ==
    IF mods = <<>> THEN c
    ELSE LET n == IF Head(mods).digits = "" THEN 1 ELSE DigitValue(Head(mods).digits)
             to == IF Head(mods).sign = "~" THEN Ancestor(c, n)
                   ELSE IF n > Len(commits[c].parents) THEN 0
                   ELSE commits[c].parents[n]
         IN IF to = 0 THEN 0 ELSE Applied(Tail(mods), to)

\* C20: HEAD followed by ~N and ^N modifiers resolves to the commit reached by
\* applying them left to right from HEAD, ~N being exactly N first-parent
\* steps for every written N >= 0 and ^N the N-th parent for N >= 1; when a
\* parent is missing the resolution fails (0) and yields no hash.
C20_RelativeRef ==
    (out.op = "resolve"
       /\ \A k \in DOMAIN out.mods : ~(out.mods[k].sign = "^" /\ out.mods[k].digits = "0")) =>
        out.sha = Applied(out.mods, RepoHead)

(***************************************************************************)
(* Validation harness: validate() of the four simulators on repositories   *)
(* that may have no commit yet, a branch whose object is missing, or a     *)
(* detached HEAD at a missing object, for names of every kind.             *)
(***************************************************************************)
ValCommits == 2

\* the names given to validate(): HEAD in two spellings, a branch, an unknown
\* name, relative refs (well-formed, overflowing, malformed), a short hash
\* that every commit matches, a short hash of commit 1 and its full hash
ValRefs ==
    {"HEAD", "head", "main", "nope", "HEAD~1", "HEAD^2", "HEAD~9", "HEAD~x", "HEADS",
     "abcdef0", "abcdef01", ShaText(1)}

InitValidate ==
    /\ \E n \in 0..ValCommits : \E cs \in Dags(n) :
          /\ commits = [i \in 1..n |-> Commit(cs[i], EmptyTree)]
          /\ \E tip \in 0..(n + 1) :
                refs = [b \in (IF tip = 0 THEN {} ELSE {"main"}) |-> tip]
          /\ \/ HEAD = [branch |-> "main", sha |-> 0]
             \/ \E at \in 1..(n + 1) : HEAD = [branch |-> "", sha |-> at]
    /\ our_changes = <<>>
    /\ their_changes = <<>>
    /\ hash_seed = 0
    /\ snapshots = <<>>
    /\ plugins = NoPlugins
    /\ out = NoOut

ValidatedWith(kind, args, v) ==
    [op |-> "validate", kind |-> kind, args |-> args, raised |-> v.raised,
     errors |-> v.errors, warnings |-> v.warnings]

RebaseValidateAnyRef ==
    /\ out.op = "none"
    /\ \E source \in ValRefs, onto \in ValRefs :
          out' = ValidatedWith("rebase", <<source, onto>>, RebaseValidate(source, onto))
    /\ UNCHANGED <<commits, refs, HEAD, our_changes, their_changes, hash_seed, snapshots, plugins>>

MergeValidateAnyRef ==
    /\ out.op = "none"
    /\ \E source \in ValRefs, target \in ValRefs :
          out' = ValidatedWith("merge", <<source, target>>, MergeValidate(source, target, FALSE))
    /\ UNCHANGED <<commits, refs, HEAD, our_changes, their_changes, hash_seed, snapshots, plugins>>

ResetValidateAnyRef ==
    /\ out.op = "none"
    /\ \E target \in ValRefs :
          out' = ValidatedWith("reset", <<target>>, ResetValidate(target, "HARD"))
    /\ UNCHANGED <<commits, refs, HEAD, our_changes, their_changes, hash_seed, snapshots, plugins>>

CherryPickValidateAnyRef ==
    /\ out.op = "none"
    /\ \E ref \in ValRefs, target \in ValRefs :
          out' = ValidatedWith("cherry_pick", <<ref, target>>,
                               CherryPickValidate(<<ref>>, target))
    /\ UNCHANGED <<commits, refs, HEAD, our_changes, their_changes, hash_seed, snapshots, plugins>>

NextValidate ==
    \/ RebaseValidateAnyRef
    \/ MergeValidateAnyRef
    \/ ResetValidateAnyRef
    \/ CherryPickValidateAnyRef

SpecValidate == InitValidate /\ [][NextValidate]_vars

\* the given refs that do not resolve to a commit
Unresolved(args) == {k \in DOMAIN args : get_commit(args[k]) <= 0}

\* C14: validate() of each simulator returns (errors, warnings) for every ref
\* string and never raises; when a given ref does not resolve, the errors
\* start with an entry naming a given ref that does not resolve.
C14_ValidateNeverRaises ==
    out.op = "validate" /\ "args" \in DOMAIN out =>
        /\ ~out.raised
        /\ Unresolved(out.args) # {} =>
              /\ out.errors # <<>>
              /\ \E k \in Unresolved(out.args) : out.errors[1][2] = out.args[k]

(***************************************************************************)
(* Two-run harness: one dispatcher call made twice on one repository, the  *)
(* second time in the same process or in a process started afresh.         *)
(***************************************************************************)
\* a root and one commit on each of two branches, each with any tree
InitTwoRuns ==
    /\ \E root \in [Paths -> 0..OpsBlob], ours \in [Paths -> 0..OpsBlob],
          theirs \in [Paths -> 0..OpsBlob] :
          commits = <<Commit(<<>>, root), Commit(<<1>>, ours), Commit(<<1>>, theirs)>>
    /\ refs = [b \in {"main", "feature"} |-> IF b = "main" THEN 2 ELSE 3]
    /\ HEAD = [branch |-> "main", sha |-> 0]
    /\ our_changes = <<>>
    /\ their_changes = <<>>
    /\ hash_seed \in HashSeeds
    /\ snapshots = <<>>
    /\ plugins = NoPlugins
    /\ out = NoOut

\* the calls made twice: command name and keyword arguments
TwoRunCalls ==
    {<<"merge", [source |-> "feature", target |-> "HEAD", no_ff |-> FALSE]>>,
     <<"rebase", [onto |-> "main", source |-> "feature"]>>,
     <<"cherry-pick", [commits |-> <<"feature">>, target |-> "HEAD"]>>,
     <<"reset", [target |-> "feature", mode |-> "hard"]>>}

FirstRun ==
    /\ out.op = "none"
    /\ \E call \in TwoRunCalls :
          out' = [op |-> "first", call |-> call, first |-> simulate(call[1], call[2])]
    /\ UNCHANGED <<commits, refs, HEAD, our_changes, their_changes, hash_seed, snapshots, plugins>>

\* the process ends and another one starts: the repository stays, the hash
\* seed is drawn anew
NewProcess ==
    /\ out.op = "first"
    /\ hash_seed' \in HashSeeds
    /\ out' = [out EXCEPT !.op = "restarted"]
    /\ UNCHANGED <<commits, refs, HEAD, our_changes, their_changes, snapshots, plugins>>

SecondRun ==
    /\ out.op \in {"first", "restarted"}
    /\ out' = [op |-> "second", call |-> out.call, first |-> out.first,
               second |-> simulate(out.call[1], out.call[2])]
    /\ UNCHANGED <<commits, refs, HEAD, our_changes, their_changes, hash_seed, snapshots, plugins>>

NextTwoRuns ==
    \/ FirstRun
    \/ NewProcess
    \/ SecondRun

SpecTwoRuns == InitTwoRuns /\ [][NextTwoRuns]_vars

\* C21: two runs of one simulation on one unchanged repository return equal
\* uniform results, the order of conflicts, steps and warnings included.
C21_SameResult == out.op = "second" => out.second = out.first

(***************************************************************************)
(* plugins/base.py: the PluginManager.  A plugin is [name, type, id]: the   *)
(* name of its metadata, its class (SIMULATOR, FORMATTER or HOOK) and the  *)
(* identity of the instance; a hook also says whether its                  *)
(* override_simulation returns a result.  A Python dict is the sequence of *)
(* its values in insertion order, keyed by the name of each value.         *)
(***************************************************************************)
Plugin(name, type, id, override) ==
    [name |-> name, type |-> type, id |-> id, override |-> override]

\* does dict d hold the key name
HasKey(d, name) == \E i \in DOMAIN d : d[i].name = name

\* d[name] = plugin: a held key keeps its place and takes the new value
DictSet(d, plugin) ==
    IF HasKey(d, plugin.name)
    THEN [i \in DOMAIN d |-> IF d[i].name = plugin.name THEN plugin ELSE d[i]]
    ELSE Append(d, plugin)

\* d.pop(name, None)
DictPop(d, name) == SelectSeq(d, LAMBDA v : v.name # name)

\* PluginManager.register
register(plugin) ==
    [_plugins |-> DictSet(plugins._plugins, plugin),
     simulators |-> IF plugin.type = "SIMULATOR" THEN DictSet(plugins.simulators, plugin)
                    ELSE plugins.simulators,
     formatters |-> IF plugin.type = "FORMATTER" THEN DictSet(plugins.formatters, plugin)
                    ELSE plugins.formatters,
     hooks |-> IF plugin.type = "HOOK" THEN Append(plugins.hooks, plugin) ELSE plugins.hooks]

\* self._plugins.get(name)
get_plugin(name) ==
    IF HasKey(plugins._plugins, name)
    THEN plugins._plugins[CHOOSE i \in DOMAIN plugins._plugins : plugins._plugins[i].name = name]
    ELSE None

\* PluginManager.unregister past the membership test: the registry after the
\* plugin held under name is popped
unregister(name) ==
    [_plugins |-> DictPop(plugins._plugins, name),
     simulators |-> IF get_plugin(name).type = "SIMULATOR" THEN DictPop(plugins.simulators, name)
                    ELSE plugins.simulators,
     formatters |-> IF get_plugin(name).type = "FORMATTER" THEN DictPop(plugins.formatters, name)
                    ELSE plugins.formatters,
     hooks |-> IF get_plugin(name).type = "HOOK"
               THEN SelectSeq(plugins.hooks, LAMBDA h : h.name # name)
               ELSE plugins.hooks]

\* PluginManager.list_plugins(): the plugins of _plugins (their metadata)
list_plugins == plugins._plugins

\* SimulatorPlugin.can_handle of the simulators registered here: each takes
\* the merge command
can_handle(simulator, command) == command = "merge"

\* PluginManager.find_simulator: the first simulator of the registry that
\* can handle the command, None without one
find_simulator(command) ==
    IF \E i \in DOMAIN plugins.simulators : can_handle(plugins.simulators[i], command)
    THEN plugins.simulators[Min({i \in DOMAIN plugins.simulators :
                                    can_handle(plugins.simulators[i], command)})]
    ELSE None

\* PluginManager.run_pre_hooks and run_post_hooks: the hook calls they make,
\* one per hook of the registry in list order
run_pre_hooks(command) ==
    [i \in DOMAIN plugins.hooks |-> [event |-> "pre", hook |-> plugins.hooks[i]]]

run_post_hooks(command) ==
    [i \in DOMAIN plugins.hooks |-> [event |-> "post", hook |-> plugins.hooks[i]]]

\* the hook calls SimulationDispatcher.simulate makes around its handler: its
\* body looks up the handler and calls it, and never asks the plugin manager
simulate_hook_calls(command, kwargs) == <<>>

(***************************************************************************)
(* Plugin harness: register, unregister and the queries of the global      *)
(* PluginManager, and dispatcher.simulate with whatever is registered.     *)
(***************************************************************************)
MaxInstances == 3

MaxHooks == 2

PluginNames == {"A", "B"}

PluginTypes == {"SIMULATOR", "FORMATTER", "HOOK"}

\* the instances some part of the manager still refers to
HeldIds ==
    {v.id : v \in Range(plugins._plugins) \cup Range(plugins.simulators)
                    \cup Range(plugins.formatters) \cup Range(plugins.hooks)}

InitPlugins ==
    /\ commits = <<Commit(<<>>, [q \in Paths |-> 1]), Commit(<<1>>, [q \in Paths |-> 2]),
                   Commit(<<1>>, [q \in Paths |-> IF q = 1 THEN 1 ELSE 0])>>
    /\ refs = [b \in {"main", "feature"} |-> IF b = "main" THEN 2 ELSE 3]
    /\ HEAD = [branch |-> "main", sha |-> 0]
    /\ our_changes = <<>>
    /\ their_changes = <<>>
    /\ hash_seed = 0
    /\ snapshots = <<>>
    /\ plugins = NoPlugins
    /\ out = NoOut

\* manager.register(plugin) with a newly made plugin instance
RegisterOp ==
    /\ Len(plugins.hooks) < MaxHooks
    /\ (1..MaxInstances) \ HeldIds # {}
    /\ \E name \in PluginNames, type \in PluginTypes, override \in BOOLEAN :
          /\ override => type = "HOOK"
          /\ plugins' = register(Plugin(name, type, Min((1..MaxInstances) \ HeldIds), override))
          /\ out' = [op |-> "register", name |-> name]
    /\ UNCHANGED <<commits, refs, HEAD, our_changes, their_changes, hash_seed, snapshots>>

UnregisterOp ==
    /\ \E name \in PluginNames :
          IF ~HasKey(plugins._plugins, name)
          THEN /\ out' = [op |-> "unregister", name |-> name, returned |-> FALSE]
               /\ UNCHANGED plugins
          ELSE /\ out' = [op |-> "unregister", name |-> name, returned |-> TRUE]
               /\ plugins' = unregister(name)
    /\ UNCHANGED <<commits, refs, HEAD, our_changes, their_changes, hash_seed, snapshots>>

FindSimulatorOp ==
    /\ out' = [op |-> "find_simulator", found |-> find_simulator("merge")]
    /\ UNCHANGED <<commits, refs, HEAD, our_changes, their_changes, hash_seed, snapshots, plugins>>

RunHooksOp ==
    /\ out' = [op |-> "run_hooks", calls |-> run_pre_hooks("merge") \o run_post_hooks("merge")]
    /\ UNCHANGED <<commits, refs, HEAD, our_changes, their_changes, hash_seed, snapshots, plugins>>

\* dispatcher.simulate("merge", source="feature", target="main") with the
\* plugins registered so far
HookedSimulateOp ==
    /\ out' = [op |-> "hooked_simulate",
               calls |-> simulate_hook_calls("merge", [source |-> "feature", target |-> "main",
                                                       no_ff |-> FALSE]),
               returned |-> simulate("merge", [source |-> "feature", target |-> "main",
                                               no_ff |-> FALSE])]
    /\ UNCHANGED <<commits, refs, HEAD, our_changes, their_changes, hash_seed, snapshots, plugins>>

NextPlugins ==
    \/ RegisterOp
    \/ UnregisterOp
    \/ FindSimulatorOp
    \/ RunHooksOp
    \/ HookedSimulateOp

SpecPlugins == InitPlugins /\ [][NextPlugins]_vars

\* C22: with a hook registered, dispatcher.simulate calls the hook's
\* pre_simulate first and its post_simulate last, and when the hook's
\* override_simulation returns a result the built-in simulator is not run.
C22_HooksAroundSimulate ==
    (out.op = "hooked_simulate" /\ plugins.hooks # <<>>) =>
        /\ out.calls # <<>>
        /\ out.calls[1].event = "pre"
        /\ out.calls[Len(out.calls)].event = "post"
        /\ (\E i \in DOMAIN plugins.hooks : plugins.hooks[i].override) =>
               out.returned.result.before_graph.commits = {}

\* the plugins the registry holds: simulators, formatters and hooks together
RegistryHeld ==
    Range(plugins.simulators) \cup Range(plugins.formatters) \cup Range(plugins.hooks)

\* C30: after any sequence of register and unregister calls the registry
\* holds exactly the plugins list_plugins returns, each once; find_simulator
\* and the hook runs reach no plugin that was unregistered or replaced.
C30_RegistryIsListPlugins ==
    /\ RegistryHeld = Range(list_plugins)
    /\ Len(plugins.simulators) + Len(plugins.formatters) + Len(plugins.hooks) = Len(list_plugins)
    /\ find_simulator("merge") # None => find_simulator("merge") \in Range(list_plugins)
    /\ \A i \in DOMAIN run_pre_hooks("merge") :
          run_pre_hooks("merge")[i].hook \in Range(list_plugins)

(***************************************************************************)
(* snapshot.py: the SnapshotManager.  snapshots is the list kept in        *)
(* snapshots.json, each entry a Snapshot with its id and name; the bundle  *)
(* files follow the list (one per id created, removed on delete).          *)
(***************************************************************************)
Snapshot(id, name) == [id |-> id, name |-> name]

\* the loop of SnapshotManager.get over a loaded list: the first snapshot
\* whose id is x or starts with x, or whose name is x; None without one
FirstMatch(list, x) ==
    IF \E i \in DOMAIN list : StartsWith(list[i].id, x) \/ list[i].name = x
    THEN list[Min({i \in DOMAIN list : StartsWith(list[i].id, x) \/ list[i].name = x})]
    ELSE None

\* SnapshotManager.get
get(x) == FirstMatch(snapshots, x)

\* SnapshotManager.create: the record is appended to the stored list
create(id, name) == Append(snapshots, Snapshot(id, name))

\* SnapshotManager.delete past the lookup: the entries with the id of the
\* snapshot that get() found are dropped
delete(x) == SelectSeq(snapshots, LAMBDA v : v.id # get(x).id)

(***************************************************************************)
(* Snapshot harness: create, delete and get in any order.                  *)
(***************************************************************************)
MaxSnapshots == 3

\* ids as _generate_id makes them, three characters standing for the twelve
SnapshotIds == {"ab1", "ab2", "cd1"}

SnapshotNames == {"ab", "s"}

\* what delete and get are asked for: ids, id prefixes, names
SnapshotArgs == SnapshotIds \cup {"a", "ab", "cd"} \cup SnapshotNames \cup {"zz"}

InitSnapshots ==
    /\ commits = <<Commit(<<>>, EmptyTree)>>
    /\ refs = [b \in {"main"} |-> 1]
    /\ HEAD = [branch |-> "main", sha |-> 0]
    /\ our_changes = <<>>
    /\ their_changes = <<>>
    /\ hash_seed = 0
    /\ snapshots = <<>>
    /\ plugins = NoPlugins
    /\ out = NoOut

\* manager.create(name): the id is a hash of the name and the clock, an id
\* no stored snapshot has
CreateOp ==
    /\ Len(snapshots) < MaxSnapshots
    /\ \E name \in SnapshotNames, id \in SnapshotIds :
          /\ \A i \in DOMAIN snapshots : snapshots[i].id # id
          /\ snapshots' = create(id, name)
          /\ out' = [op |-> "create", returned |-> Snapshot(id, name)]
    /\ UNCHANGED <<commits, refs, HEAD, our_changes, their_changes, hash_seed, plugins>>

DeleteOp ==
    /\ \E x \in SnapshotArgs :
          IF get(x) = None
          THEN /\ out' = [op |-> "delete", x |-> x, returned |-> FALSE, before |-> snapshots]
               /\ UNCHANGED snapshots
          ELSE /\ out' = [op |-> "delete", x |-> x, returned |-> TRUE, before |-> snapshots]
               /\ snapshots' = delete(x)
    /\ UNCHANGED <<commits, refs, HEAD, our_changes, their_changes, hash_seed, plugins>>

GetOp ==
    /\ \E x \in SnapshotArgs : out' = [op |-> "get", x |-> x, returned |-> get(x)]
    /\ UNCHANGED <<commits, refs, HEAD, our_changes, their_changes, hash_seed, snapshots, plugins>>

NextSnapshots ==
    \/ CreateOp
    \/ DeleteOp
    \/ GetOp

SpecSnapshots == InitSnapshots /\ [][NextSnapshots]_vars

\* C23: when delete(x) returned True a following get(x) returns None, for x
\* an id, an id prefix or a name; when get(x) finds nothing delete(x) returns
\* False and leaves the stored list as it was.
C23_DeletedIsGone ==
    out.op = "delete" =>
        /\ out.returned => get(out.x) = None
        /\ out.returned = (FirstMatch(out.before, out.x) # None)
        /\ ~out.returned => snapshots = out.before

(***************************************************************************)
(* core/diff_analyzer.py: _normalize_for_patch_id on the text of a diff.   *)
(* A diff is the list of its lines (diff_bytes.split(b"\n")).              *)
(***************************************************************************)
RECURSIVE rstrip(_)
\* bytes.rstrip() on lines whose only whitespace is the space
rstrip(line) ==
    IF line = "" THEN ""
    ELSE IF SubSeq(line, Len(line), Len(line)) = " "
    THEN rstrip(SubSeq(line, 1, Len(line) - 1))
    ELSE line

\* the lines the loop drops: index lines and diff --git lines alone
SkippedLine_DiffGitOnly(line) == StartsWith(line, "diff --git")

\* the lines the loop drops by their start: index lines and diff --git lines
SkippedLine(line) == StartsWith(line, "index ") \/ StartsWith(line, "diff --git")

RECURSIVE NormalizedLines(_)
\* the loop of _normalize_for_patch_id: normalized_lines for the lines given
NormalizedLines(lines) ==
    IF lines = <<>> THEN <<>>
    ELSE IF SkippedLine(Head(lines)) THEN NormalizedLines(Tail(lines))
    ELSE IF StartsWith(Head(lines), "@@") THEN <<"@@">> \o NormalizedLines(Tail(lines))
    ELSE IF rstrip(Head(lines)) = "" THEN NormalizedLines(Tail(lines))
    ELSE <<rstrip(Head(lines))>> \o NormalizedLines(Tail(lines))

RECURSIVE JoinLines(_)
\* b"\n".join(lines)
JoinLines(lines) ==
    IF lines = <<>> THEN ""
    ELSE IF Len(lines) = 1 THEN lines[1]
    ELSE lines[1] \o "\n" \o JoinLines(Tail(lines))

\* compute_patch_id past write_tree_diff: the SHA-1 of the normalised diff,
\* a digest standing for the bytes it was taken of
DiffPatchId(lines) == JoinLines(NormalizedLines(lines))

(***************************************************************************)
(* Patch-id harness: the diff of a commit, and a second diff grown from it *)
(* by changes to index lines, diff --git lines, the numbers of hunk        *)
(* headers, trailing whitespace and empty lines.                           *)
(***************************************************************************)
MaxDiffLines == 3

MaxVariantLines == 4

DiffLines ==
    {"diff --git a/f b/f", "index 1..2 100644", "--- a/f", "@@ -1 +1 @@", "-x", "+y"}

\* the other forms a line may take in the second diff: another index line,
\* another diff --git line, a hunk header with other line numbers
OtherForm(line) ==
    IF StartsWith(line, "index ") THEN "index 3..4 100644"
    ELSE IF StartsWith(line, "diff --git") THEN "diff --git a/g b/g"
    ELSE IF StartsWith(line, "@@") THEN "@@ -7,2 +9,2 @@"
    ELSE line

\* lines that may be put into or taken out of the second diff
FreeLines == {"", " ", "index 3..4 100644"}

InsertAt(seq, k, x) == SubSeq(seq, 1, k - 1) \o <<x>> \o SubSeq(seq, k, Len(seq))

RemoveAt(seq, k) == SubSeq(seq, 1, k - 1) \o SubSeq(seq, k + 1, Len(seq))

InitPatchId ==
    /\ commits = <<>>
    /\ refs = <<>>
    /\ HEAD = [branch |-> "", sha |-> 0]
    /\ our_changes = <<>>
    /\ their_changes = <<>>
    /\ hash_seed = 0
    /\ snapshots = <<>>
    /\ plugins = NoPlugins
    /\ out = NoOut

\* the patch-id of a diff, and of the same diff taken again
ComputePatchId ==
    /\ out.op = "none"
    /\ \E lines \in SeqsUpTo(DiffLines, MaxDiffLines) :
          out' = [op |-> "patch_id", diff |-> lines, id |-> DiffPatchId(lines),
                  other |-> lines, other_id |-> DiffPatchId(lines)]
    /\ UNCHANGED <<commits, refs, HEAD, our_changes, their_changes, hash_seed, snapshots, plugins>>

\* the second diff with one line in its other form, or with a space at the
\* end of one line
ChangeLine ==
    /\ out.op = "patch_id"
    /\ \E k \in DOMAIN out.other :
       \E line \in {OtherForm(out.other[k]), out.other[k] \o " "} :
          /\ rstrip(line) = line \/ rstrip(out.other[k]) = out.other[k]
          /\ out' = [out EXCEPT !.other = [@ EXCEPT ![k] = line],
                                !.other_id = DiffPatchId([out.other EXCEPT ![k] = line])]
    /\ UNCHANGED <<commits, refs, HEAD, our_changes, their_changes, hash_seed, snapshots, plugins>>

\* the second diff with an empty line, an index line or a diff --git line
\* more, or one less
InsertOrRemoveLine ==
    /\ out.op = "patch_id"
    /\ \E other \in
           {InsertAt(out.other, k, x) : k \in 1..(Len(out.other) + 1), x \in FreeLines}
           \cup {RemoveAt(out.other, k) :
                    k \in {j \in DOMAIN out.other :
                             SkippedLine(out.other[j]) \/ rstrip(out.other[j]) = ""}} :
          /\ Len(other) <= MaxVariantLines
          /\ out' = [out EXCEPT !.other = other, !.other_id = DiffPatchId(other)]
    /\ UNCHANGED <<commits, refs, HEAD, our_changes, their_changes, hash_seed, snapshots, plugins>>

NextPatchId ==
    \/ ComputePatchId
    \/ ChangeLine
    \/ InsertOrRemoveLine

SpecPatchId == InitPatchId /\ [][NextPatchId]_vars

\* C24: two diffs that differ only in index lines, diff --git lines, the line
\* numbers of hunk headers, trailing whitespace and empty lines have equal
\* patch-ids, and the patch-id of one diff taken twice is the same.
C24_PatchIdInvariant ==
    out.op = "patch_id" =>
        /\ out.other_id = out.id
        /\ DiffPatchId(out.diff) = out.id

\* reached: a second diff with another index line, other hunk header numbers
\* and a trailing space, next to a diff with a content line
C24_Witness ==
    /\ out.op = "patch_id"
    /\ out.diff = <<"index 1..2 100644", "@@ -1 +1 @@", "+y">>
    /\ out.other = <<"index 3..4 100644", "@@ -7,2 +9,2 @@", "+y ", "">>
    /\ out.other_id = out.id


(***************************************************************************)
(* Severity harness: _analyze_file_conflict applied to two MODIFY changes  *)
(* of one path; our_changes and their_changes hold the two lists of hunks. *)
(***************************************************************************)
MaxSevHunks == 2

SevStarts == {1, 2, 20}

LinesA == << <<"-", "old">>, <<"+", "a">> >>

LinesB == << <<"-", "old">>, <<"+", "b">> >>

LinesCtxA == << <<" ", "ctx">>, <<"-", "old">>, <<"+", "a">> >>

SevHunks == {DiffHunk(st, 1, l) : st \in SevStarts, l \in {LinesA, LinesB, LinesCtxA}}

InitSeverity ==
    /\ commits = <<>>
    /\ refs = <<>>
    /\ HEAD = [branch |-> "", sha |-> 0]
    /\ our_changes \in SeqsUpTo(SevHunks, MaxSevHunks)
    /\ their_changes \in SeqsUpTo(SevHunks, MaxSevHunks)
    /\ hash_seed = 0
    /\ snapshots = <<>>
    /\ plugins = NoPlugins
    /\ out = NoOut

AnalyzeFileConflict ==
    /\ out.op = "none"
    /\ out' = [op |-> "analyzed",
               conflict |-> _analyze_file_conflict(1,
                                FileChange(1, "MODIFY", 0, 0, our_changes),
                                FileChange(1, "MODIFY", 0, 0, their_changes))]
    /\ UNCHANGED <<commits, refs, HEAD, our_changes, their_changes, hash_seed, snapshots, plugins>>

NextSeverity == AnalyzeFileConflict

SpecSeverity == InitSeverity /\ [][NextSeverity]_vars

\* the overlapping pairs (index of our hunk, index of their hunk)
SevPairs ==
    {ij \in (DOMAIN our_changes) \X (DOMAIN their_changes) :
        HunksOverlap(our_changes[ij[1]], their_changes[ij[2]])}

SevPairsIdentical ==
    \A ij \in SevPairs :
        ChangedLines(our_changes[ij[1]]) = ChangedLines(their_changes[ij[2]])

DistinctRanges(hunks) ==
    \A i, j \in DOMAIN hunks : i # j => old_range(hunks[i]) # old_range(hunks[j])

\* C25: two MODIFY changes of one path with hunks on both sides and at least
\* one overlapping pair of hunks get severity LIKELY when every overlapping
\* pair has equal '+'/'-' line sequences and CERTAIN otherwise, also when
\* several hunks of one side have the same old range.
C25_Severity ==
    (out.op = "analyzed" /\ SevPairs # {})
        => /\ out.conflict # None
           /\ out.conflict.severity = IF SevPairsIdentical THEN "LIKELY" ELSE "CERTAIN"

\* the same statement for sides whose hunks have pairwise different old ranges
C25_SeverityDistinctRanges ==
    (out.op = "analyzed" /\ SevPairs # {}
        /\ DistinctRanges(our_changes) /\ DistinctRanges(their_changes))
        => /\ out.conflict # None
           /\ out.conflict.severity = IF SevPairsIdentical THEN "LIKELY" ELSE "CERTAIN"

C25_DistinctRangesWitness ==
    /\ out.op = "analyzed"
    /\ Len(our_changes) = 2 /\ Len(their_changes) = 2
    /\ DistinctRanges(our_changes) /\ DistinctRanges(their_changes)
    /\ Cardinality(SevPairs) >= 2
    /\ out.conflict # None
    /\ out.conflict.severity = "LIKELY"


(***************************************************************************)
(* Claims about the after-graph of the rebase simulation, checked under    *)
(* SpecRebase.                                                             *)
(***************************************************************************)
\* the steps of the rebase that are not skipped
KeptSteps == {i \in DOMAIN out.sim.steps : ~out.sim.steps[i].will_be_skipped}

\* the tip of the replayed chain before step i: the new hash of the nearest
\* earlier step that is not skipped, the onto tip when there is none
ChainTipBefore(i) ==
    IF {k \in KeptSteps : k < i} = {} THEN out.sim.onto_sha
    ELSE out.sim.steps[Max({k \in KeptSteps : k < i})].new_sha

\* the commits of the after-graph with the given hash
SynthesizedAt(sha) ==
    {n \in DOMAIN out.sim.after_graph.synthesized :
        out.sim.after_graph.synthesized[n].sha = sha}

\* C26: the after-graph of a rebase holds, for every step that is not
\* skipped, one commit keyed by the step's new hash whose only parent is the
\* new hash of the nearest earlier step that is not skipped, or the onto tip
\* for the first such step; skipped steps add no commit; and the steps come
\* oldest first: no step's commit is an ancestor of an earlier step's commit.
C26_RebaseAfterGraphChain ==
    RebaseDone =>
        /\ \A i \in KeptSteps :
              /\ out.sim.steps[i].new_sha # 0
              /\ out.sim.steps[i].new_sha \in out.sim.after_graph.commits
              /\ Cardinality(SynthesizedAt(out.sim.steps[i].new_sha)) = 1
              /\ \A n \in SynthesizedAt(out.sim.steps[i].new_sha) :
                    out.sim.after_graph.synthesized[n].parent_shas = <<ChainTipBefore(i)>>
        /\ Len(out.sim.after_graph.synthesized) = Cardinality(KeptSteps)
        /\ out.sim.after_graph.commits \ DOMAIN commits
              = {out.sim.steps[i].new_sha : i \in KeptSteps}
        /\ \A i, j \in DOMAIN out.sim.steps :
              i < j => out.sim.steps[j].original_sha
                          \notin Reach({out.sim.steps[i].original_sha})

\* a skipped first step followed by a replayed one, which sits on the onto tip
C26_SkipWitness ==
    /\ RebaseDone
    /\ Len(out.sim.steps) = 2
    /\ out.sim.steps[1].will_be_skipped
    /\ KeptSteps = {2}
    /\ out.sim.after_graph.synthesized
          = << [sha |-> out.sim.steps[2].new_sha, parent_shas |-> <<out.sim.onto_sha>>] >>

\* three replayed steps chained one on the other
C26_ChainReached ==
    /\ RebaseDone
    /\ KeptSteps = {1, 2, 3}
    /\ out.sim.after_graph.synthesized[3].parent_shas = <<out.sim.steps[2].new_sha>>


\* the tip of the replayed chain: the new hash of the last step that is not
\* skipped, the onto tip when no step is replayed
ChainTip ==
    IF KeptSteps = {} THEN out.sim.onto_sha
    ELSE out.sim.steps[Max(KeptSteps)].new_sha

\* C29: the after-graph's head_sha and the uniform result's new_head_sha of a
\* rebase both name the tip of the replayed chain: the new hash of the last
\* step that is not skipped, or the onto tip when no step is replayed; also
\* when the last step is skipped and an earlier one is not.
C29_HeadIsChainTip ==
    RebaseDone =>
        /\ out.sim.after_graph.head_sha = ChainTip
        /\ RebaseToResult(out.sim).new_head_sha = ChainTip

\* the same statement for the rebases whose last step is replayed
C29_HeadWhenLastReplayed ==
    (RebaseDone /\ out.sim.steps # <<>> /\ Len(out.sim.steps) \in KeptSteps) =>
        /\ out.sim.after_graph.head_sha = ChainTip
        /\ RebaseToResult(out.sim).new_head_sha = ChainTip

\* the after-graph's head alone, for the rebases that replay nothing
C29_GraphHeadWhenNothingReplayed ==
    (RebaseDone /\ KeptSteps = {}) => out.sim.after_graph.head_sha = out.sim.onto_sha

\* a skipped last step after a replayed one leaves the head on the onto tip
C29_SkippedLastHeadOnOnto ==
    (RebaseDone /\ KeptSteps # {} /\ Len(out.sim.steps) \notin KeptSteps) =>
        /\ out.sim.after_graph.head_sha = out.sim.onto_sha
        /\ out.sim.after_graph.head_sha # ChainTip
        /\ RebaseToResult(out.sim).new_head_sha = 0

C29_SkippedLastReached ==
    RebaseDone /\ KeptSteps # {} /\ Len(out.sim.steps) \notin KeptSteps


(***************************************************************************)
(* Claims about the cherry-pick simulation, checked under SpecOps.         *)
(***************************************************************************)
PickDone == out.op = "cherry_pick" /\ ~out.raised

\* the simulated head before step k: the target tip, then the new hashes
PickHeadBefore(k) ==
    IF k = 1 THEN get_commit(out.args[2]) ELSE out.sim.steps[k - 1].new_sha

\* C27: a cherry-pick of n commit refs gives n steps in the order of the refs,
\* numbered 1..n, each with a new hash that is the hash of (original hash,
\* simulated head before the step, step number); in the after-graph the
\* commit of step k has the new hash of step k-1 as its only parent (the
\* target tip for k = 1), and the after-graph's head_sha is the new hash of
\* step n.
C27_CherryPickChain ==
    PickDone =>
        /\ Len(out.sim.steps) = Len(out.args[1])
        /\ \A k \in DOMAIN out.sim.steps :
              /\ out.sim.steps[k].step_number = k
              /\ out.sim.steps[k].original_sha = get_commit(out.args[1][k])
              /\ out.sim.steps[k].new_sha # 0
              /\ out.sim.steps[k].new_sha
                    = _generate_picked_sha(out.sim.steps[k].original_sha, PickHeadBefore(k), k)
              /\ out.sim.steps[k].new_sha \in out.sim.after_graph.commits
              /\ \A l \in DOMAIN out.sim.steps :
                    l # k => out.sim.steps[l].new_sha # out.sim.steps[k].new_sha
        /\ out.sim.after_graph.synthesized
              = [k \in DOMAIN out.sim.steps |->
                    [sha |-> out.sim.steps[k].new_sha, parent_shas |-> <<PickHeadBefore(k)>>]]
        /\ out.sim.steps # <<>>
              => out.sim.after_graph.head_sha = out.sim.steps[Len(out.sim.steps)].new_sha

\* two different commits picked, the second simulated commit on the first
C27_Witness ==
    /\ PickDone
    /\ Len(out.args[1]) = 2
    /\ out.sim.steps[1].original_sha # out.sim.steps[2].original_sha
    /\ out.sim.after_graph.synthesized[2].parent_shas = <<out.sim.steps[1].new_sha>>
    /\ out.sim.after_graph.synthesized[1].parent_shas = <<get_commit(out.args[2])>>
    /\ out.sim.after_graph.head_sha = out.sim.steps[2].new_sha


(***************************************************************************)
(* Merge harness: MergeSimulator.run on the repositories of the rebase     *)
(* harness (several commits on either side, two paths).                    *)
(***************************************************************************)
InitMerge == InitRebase

\* git-sim merge main, the target being HEAD
Merge ==
    /\ out.op = "none"
    /\ \E no_ff \in BOOLEAN : out' = MergeRun("main", "HEAD", no_ff)
    /\ UNCHANGED <<commits, refs, HEAD, our_changes, their_changes, hash_seed, snapshots, plugins>>

NextMerge == Merge

SpecMerge == InitMerge /\ [][NextMerge]_vars

ConflictPaths(conflicts) == {conflicts[i].path : i \in DOMAIN conflicts}

C28_NoRenameCollected ==
    MergeDone =>
        \A i \in DOMAIN out.sim.conflicts :
            /\ out.sim.conflicts[i].our_change.change_type \in {"ADD", "DELETE", "MODIFY"}
            /\ out.sim.conflicts[i].their_change.change_type \in {"ADD", "DELETE", "MODIFY"}

\* _find_clean_merges applied to any two lists of changes, renames included,
\* and the conflicts detect_conflicts reports for them
C28_CleanOfAnyChanges ==
    out.op = "detect" =>
        ConflictPaths(out.conflicts)
            \cap Range(_find_clean_merges(their_changes, our_changes, out.conflicts)) = {}

====
